---- MODULE Spec2Model ----
\* Model of the LotlOps agent gateway (apps/lotlops-agent): the allowlisted
\* ShellExecutor, the signed-request check verify_signature, the token-bucket
\* rate_limit dependency and the privileged endpoints that compose them.
EXTENDS Integers, Sequences, FiniteSets, TLC

\* ------------------------------------------------------------------ bounds
\* longest command line handed to ShellExecutor.run
MaxCmdLen == 3

\* ------------------------------------------------------- ShellExecutor
\* child_exit: what the ended child left (exit code, stdout, stderr)
VARIABLES allowed_commands, timeout_seconds, ex_pc, ex_command, ex_result,
          child, spawned, ex_elapsed, child_exit

exec_vars == <<allowed_commands, timeout_seconds, ex_pc, ex_command, ex_result,
               child, spawned, ex_elapsed, child_exit>>

\* ---------------------------------------------------- verify_signature
\* now: the wall clock in ticks; au_*: one signed envelope, the instant it
\* was checked at and the outcome of the check; au_presented: how often the
\* envelope has been checked so far (kept by the model, not by the program)
VARIABLES now, au_timestamp, au_signature, au_body, au_pc, au_at, au_result,
          au_presented

auth_vars == <<au_timestamp, au_signature, au_body, au_pc, au_at, au_result,
               au_presented>>

\* ------------------------------------------------------------ rate_limit
\* RATE_LIMIT_RPS: the configured rate; redis_client: whether the shared
\* store is configured; last_seen: the in-process map ip -> (ts, tokens);
\* redis: the hashes rl:<ip> of the shared store; req: the requests in flight;
\* burst: per client, the admissions decided at the present instant
VARIABLES RATE_LIMIT_RPS, redis_client, last_seen, redis, req, burst

gate_vars == <<RATE_LIMIT_RPS, redis_client, last_seen, redis, req>>

\* ------------------------------------------- the two limiter backends
\* dec: the last call of rate_limit answered by both backends side by side
VARIABLES dec

\* ------------------------------------------------------- LOTLAgent (swarm)
\* sw_pc: where execute_shell_command is; sw_command: its argument; sw_child:
\* the child process; sw_spawned: children started; sw_result: the dict
\* returned
VARIABLES sw_pc, sw_command, sw_child, sw_spawned, sw_result

swarm_vars == <<sw_pc, sw_command, sw_child, sw_spawned, sw_result>>

\* ------------------------------------------------------------ OllamaModel
\* llm_scheme: the scheme of base_url; llm_pc: where invoke is; llm_prompt:
\* its argument; llm_http: what _invoke_http returned; llm_cli: whether
\* _invoke_cli was called; llm_result: what invoke returned
VARIABLES llm_scheme, llm_pc, llm_prompt, llm_http, llm_cli, llm_result

llm_vars == <<llm_scheme, llm_pc, llm_prompt, llm_http, llm_cli, llm_result>>

\* ------------------------------------------------------- semantic_store
\* memory_fts: the committed rows of the FTS5 table, in rowid order; tasks:
\* the committed rows of the table tasks by id; task_seq: the AUTOINCREMENT
\* counter of tasks (sqlite_sequence); st_clock: datetime.utcnow() as a
\* counter; st_call: the last call made by a single caller and what it gave
VARIABLES memory_fts, tasks, task_seq, st_clock, st_call

\* wlock: the connection that holds the write lock of the database file, 0
\* when it is free; conn: per concurrent caller, the call it is in and its
\* open connection; returned: the task ids handed back by add_task, in the
\* order the calls returned
VARIABLES wlock, conn, returned

store_vars == <<memory_fts, tasks, task_seq, st_clock, st_call, wlock, conn, returned>>

\* ------------------------------------------------------------ /stream
\* sr_pc: where the generator gen of /stream is; sr_lines: the lines the
\* completion service has still to send; sr_upstream: the streamed request
\* to the completion service; sr_client: the client of /stream; sr_sent: the
\* chunks that went out to it; sr_how: how gen ended
VARIABLES sr_pc, sr_lines, sr_upstream, sr_client, sr_sent, sr_how

stream_vars == <<sr_pc, sr_lines, sr_upstream, sr_client, sr_sent, sr_how>>

\* ----------------------------------------------- ShellExecutor.__init__
\* arg_allowed, arg_timeout: the arguments the executor was constructed with
VARIABLES arg_allowed, arg_timeout

ctor_vars == <<arg_allowed, arg_timeout>>

\* ------------------------------------------- rate_limit, fractional rates
\* fr_rps: RATE_LIMIT_RPS as a multiple of 1/RateDen; fr_redis: whether the
\* shared store is the backend; fr_buckets: per client the stored tokens and
\* the time since the bucket was written; fr_last: the answer to the last
\* admit of each client; fr_asked: the parity of the admits it has made
VARIABLES fr_rps, fr_redis, fr_buckets, fr_last, fr_asked

frac_vars == <<fr_rps, fr_redis, fr_buckets, fr_last, fr_asked>>

\* ------------------------------------------------ LotlOpsDaemon.partner
\* pt_pc: where the call of partner stands; pt_instruction: its argument;
\* pt_task_id, pt_recalls, pt_plan: its locals; pt_logs: memory.logs of the
\* daemon the request made; pt_result: what the call gave its caller
VARIABLES pt_pc, pt_instruction, pt_task_id, pt_recalls, pt_plan, pt_logs, pt_result

partner_vars == <<pt_pc, pt_instruction, pt_task_id, pt_recalls, pt_plan, pt_logs, pt_result>>

\* ------------------------------------------------ AgentSwarmOrchestrator
\* active_tasks, completed_tasks: the dicts of the orchestrator, task id to
\* Task object; task_state: status and result of each Task object; et_pc:
\* where execute_task stands; et_task: its argument; et_out: what it returned
VARIABLES active_tasks, completed_tasks, task_state, et_pc, et_task, et_out

orch_vars == <<active_tasks, completed_tasks, task_state, et_pc, et_task, et_out>>

\* ------------------------------------------------------ LLMFallbackAgent
\* fb_agent: which of the two files the agent is of; fb_pc: where call
\* stands; fb_task_type, fb_prompt: its arguments; fb_invoked: the models
\* invoked by this call, in order; fb_raised: for each, whether invoke
\* raised; fb_result: what call gave its caller
VARIABLES fb_agent, fb_pc, fb_task_type, fb_prompt, fb_invoked, fb_raised, fb_result

fallback_vars == <<fb_agent, fb_pc, fb_task_type, fb_prompt, fb_invoked, fb_raised, fb_result>>

ext_vars == <<stream_vars, ctor_vars, frac_vars, partner_vars, orch_vars, fallback_vars>>

\* the later groups but this one, and every variable but those of this group
stream_rest == <<ctor_vars, frac_vars, partner_vars, orch_vars, fallback_vars>>
but_stream ==
  <<exec_vars, now, auth_vars, gate_vars, burst, dec, swarm_vars, llm_vars, store_vars,
    stream_rest>>

\* the later groups but this one, and every variable but those of this group
ctor_rest == <<stream_vars, frac_vars, partner_vars, orch_vars, fallback_vars>>
but_ctor ==
  <<exec_vars, now, auth_vars, gate_vars, burst, dec, swarm_vars, llm_vars, store_vars,
    ctor_rest>>

\* the later groups but this one, and every variable but those of this group
frac_rest == <<stream_vars, ctor_vars, partner_vars, orch_vars, fallback_vars>>
but_frac ==
  <<exec_vars, now, auth_vars, gate_vars, burst, dec, swarm_vars, llm_vars, store_vars,
    frac_rest>>

\* the later groups but this one, and every variable but those of this group
partner_rest == <<stream_vars, ctor_vars, frac_vars, orch_vars, fallback_vars>>
but_partner ==
  <<exec_vars, now, auth_vars, gate_vars, burst, dec, swarm_vars, llm_vars, store_vars,
    partner_rest>>

\* the later groups but this one, and every variable but those of this group
orch_rest == <<stream_vars, ctor_vars, frac_vars, partner_vars, fallback_vars>>
but_orch ==
  <<exec_vars, now, auth_vars, gate_vars, burst, dec, swarm_vars, llm_vars, store_vars,
    orch_rest>>

\* the later groups but this one, and every variable but those of this group
fallback_rest == <<stream_vars, ctor_vars, frac_vars, partner_vars, orch_vars>>
but_fallback ==
  <<exec_vars, now, auth_vars, gate_vars, burst, dec, swarm_vars, llm_vars, store_vars,
    fallback_rest>>

more_vars == <<dec, swarm_vars, llm_vars, store_vars, ext_vars>>

\* ------------------------------------------------------- ShellExecutor
\* characters a command line is written with: two letters of different case,
\* another letter, the path separator, a blank, a quote and the escape
Chars == {"l", "L", "x", "/", " ", "'", "\\"}
Whitespace == {" "}
Quotes == {"'"}
Escape == {"\\"}

Cmds == UNION {[1..n -> Chars] : n \in 0..MaxCmdLen}

\* allowlists an operator may configure (names are stripped and non-empty)
Allowlists == { {<<"l">>}, {<<"l">>, <<"x">>}, {<<"l", "x">>} }

\* shlex.split(command): posix mode, whitespace_split, no comments.
\* st is the lexer state: " " between tokens, "a" inside a word, a quote
\* character inside quotes, the escape character after a backslash.
RECURSIVE ShlexScan(_, _, _, _, _, _)
ShlexScan(s, i, st, escapedstate, token, parts) ==
  IF i > Len(s)
  THEN IF st \in Quotes \/ st \in Escape
       THEN [ok |-> FALSE, parts |-> <<>>]
       ELSE [ok |-> TRUE,
             parts |-> IF st = "a" THEN Append(parts, token) ELSE parts]
  ELSE LET c == s[i] IN
    IF st = " "
    THEN IF c \in Whitespace THEN ShlexScan(s, i + 1, " ", escapedstate, <<>>, parts)
         ELSE IF c \in Escape THEN ShlexScan(s, i + 1, c, "a", <<>>, parts)
         ELSE IF c \in Quotes THEN ShlexScan(s, i + 1, c, escapedstate, <<>>, parts)
         ELSE ShlexScan(s, i + 1, "a", escapedstate, <<c>>, parts)
    ELSE IF st \in Quotes
    THEN IF c = st THEN ShlexScan(s, i + 1, "a", escapedstate, token, parts)
         ELSE ShlexScan(s, i + 1, st, escapedstate, Append(token, c), parts)
    ELSE IF st \in Escape
    THEN ShlexScan(s, i + 1, escapedstate, escapedstate,
                   IF escapedstate \in Quotes /\ c # st /\ c # escapedstate
                   THEN Append(Append(token, st), c) ELSE Append(token, c),
                   parts)
    ELSE \* st = "a"
         IF c \in Whitespace
         THEN ShlexScan(s, i + 1, " ", escapedstate, <<>>, Append(parts, token))
         ELSE IF c \in Quotes THEN ShlexScan(s, i + 1, c, escapedstate, token, parts)
         ELSE IF c \in Escape THEN ShlexScan(s, i + 1, c, "a", token, parts)
         ELSE ShlexScan(s, i + 1, "a", escapedstate, Append(token, c), parts)

ShlexSplit(s) == ShlexScan(s, 1, " ", "a", <<>>, <<>>)

\* os.path.basename(p): what follows the last "/"
RECURSIVE LastSlash(_, _)
LastSlash(p, i) == IF i = 0 THEN 0 ELSE IF p[i] = "/" THEN i ELSE LastSlash(p, i - 1)

Basename(p) == SubSeq(p, LastSlash(p, Len(p)) + 1, Len(p))

\* ShellExecutor._is_allowed with the membership test dropped
IsAllowedAnyBase(command) ==
  LET sp == ShlexSplit(command) IN
  /\ sp.ok
  /\ sp.parts # <<>>

\* ShellExecutor._is_allowed
IsAllowed(command) ==
  LET sp == ShlexSplit(command) IN
  /\ sp.ok
  /\ sp.parts # <<>>
  /\ Basename(sp.parts[1]) \in allowed_commands

\* exit codes of a child: success, failure, and a failure other than 1
ExitCodes == {0, 1, 2}

\* timeouts (seconds) an operator may configure
Timeouts == {1, 2}

NoResult == [kind |-> "none", text |-> ""]
NoExit == [code |-> 0, out |-> "", err |-> ""]
DeniedResult == [kind |-> "Denied", text |-> "Command not allowed by policy"]
TimedOutResult == [kind |-> "TimedOut", text |-> "Error: command timeout"]

ExecInit ==
  /\ allowed_commands \in Allowlists
  /\ timeout_seconds \in Timeouts
  /\ ex_pc = "idle"
  /\ ex_command = <<>>
  /\ ex_result = NoResult
  /\ child = "none"
  /\ spawned = 0
  /\ ex_elapsed = 0
  /\ child_exit = NoExit

\* str.strip() on the texts a child writes
Strip(s) == IF s = "out\n" THEN "out" ELSE IF s = "err\n" THEN "err" ELSE s

\* run(command), first half: the policy check; a denied command returns at
\* once, an allowed one is handed to subprocess.run, which starts the child
\* and waits for it, or fails to start it (OSError is not caught by run).
RunDenied(command) ==
  /\ ex_pc = "idle"
  /\ ~IsAllowed(command)
  /\ ex_command' = command
  /\ ex_result' = DeniedResult
  /\ ex_pc' = "returned"
  /\ child' = "none"
  /\ spawned' = 0
  /\ ex_elapsed' = 0
  /\ child_exit' = NoExit
  /\ UNCHANGED <<allowed_commands, timeout_seconds>>

RunSpawn(command) ==
  /\ ex_pc = "idle"
  /\ IsAllowed(command)
  /\ ex_command' = command
  /\ ex_result' = NoResult
  /\ ex_pc' = "waiting"
  /\ child' = "running"
  /\ spawned' = 1
  /\ ex_elapsed' = 0
  /\ child_exit' = NoExit
  /\ UNCHANGED <<allowed_commands, timeout_seconds>>

RunSpawnFails(command) ==
  /\ ex_pc = "idle"
  /\ IsAllowed(command)
  /\ ex_command' = command
  /\ ex_result' = [kind |-> "Exception", text |-> "OSError"]
  /\ ex_pc' = "raised"
  /\ child' = "none"
  /\ spawned' = 0
  /\ ex_elapsed' = 0
  /\ child_exit' = NoExit
  /\ UNCHANGED <<allowed_commands, timeout_seconds>>

\* the child keeps running for another second, the timeout not yet reached
ChildRuns ==
  /\ ex_pc = "waiting"
  /\ child = "running"
  /\ ex_elapsed < timeout_seconds
  /\ ex_elapsed' = ex_elapsed + 1
  /\ UNCHANGED <<allowed_commands, timeout_seconds, ex_pc, ex_command, ex_result,
                 child, spawned, child_exit>>

\* the child ends by itself within the timeout: check=True turns a nonzero
\* exit code into CalledProcessError, whose stderr is the returned text
ChildExits(code, out, err) ==
  /\ ex_pc = "waiting"
  /\ child = "running"
  /\ ex_elapsed < timeout_seconds
  /\ child' = "exited"
  /\ child_exit' = [code |-> code, out |-> out, err |-> err]
  /\ ex_result' = IF code = 0
                  THEN [kind |-> "Output", text |-> Strip(out)]
                  ELSE [kind |-> "Failed", text |-> Strip(err)]
  /\ ex_pc' = "returned"
  /\ UNCHANGED <<allowed_commands, timeout_seconds, ex_command, spawned, ex_elapsed>>

\* the timeout expires with the child abandoned, still running
RunTimeoutAbandon ==
  /\ ex_pc = "waiting"
  /\ child = "running"
  /\ ex_elapsed >= timeout_seconds
  /\ child' = "running"
  /\ ex_result' = TimedOutResult
  /\ ex_pc' = "returned"
  /\ UNCHANGED <<allowed_commands, timeout_seconds, ex_command, spawned, ex_elapsed,
                 child_exit>>

\* the timeout expires: subprocess.run kills the child, waits for it and
\* raises TimeoutExpired, which run turns into the timeout text
RunTimeout ==
  /\ ex_pc = "waiting"
  /\ child = "running"
  /\ ex_elapsed >= timeout_seconds
  /\ child' = "killed"
  /\ ex_result' = TimedOutResult
  /\ ex_pc' = "returned"
  /\ UNCHANGED <<allowed_commands, timeout_seconds, ex_command, spawned, ex_elapsed,
                 child_exit>>

\* the caller has taken the result; the executor is ready for the next call
RunAgain ==
  /\ ex_pc \in {"returned", "raised"}
  /\ ex_pc' = "idle"
  /\ ex_command' = <<>>
  /\ ex_result' = NoResult
  /\ child' = "none"
  /\ spawned' = 0
  /\ ex_elapsed' = 0
  /\ child_exit' = NoExit
  /\ UNCHANGED <<allowed_commands, timeout_seconds>>

\* ----------------------------------------------- ShellExecutor.__init__
\* what the environment gives: ALLOWED_COMMANDS split at the commas and
\* COMMAND_TIMEOUT_SECONDS, as the operator has set them (unset they are
\* the thirteen default names and 30)
EnvAllowed == <<<<"l">>, <<"x">>>>
EnvTimeout == 3

\* an argument left at its default None
NotGiven == [given |-> FALSE]

Given(v) == [given |-> TRUE, val |-> v]
AllowedArgs == {NotGiven, Given(<<>>), Given(<< <<"l">> >>), Given(<< <<" ", "l">> >>)}
TimeoutArgs == {NotGiven, Given(0), Given(1)}

\* c.strip()
RECURSIVE StripName(_)
StripName(c) ==
  IF c = <<>> THEN c
  ELSE IF Head(c) \in Whitespace THEN StripName(Tail(c))
  ELSE IF c[Len(c)] \in Whitespace THEN StripName(SubSeq(c, 1, Len(c) - 1))
  ELSE c

\* self.allowed_commands: the names of (allowed_commands or
\* allowed_env.split(",")), stripped, the empty ones left out
InitAllowed(arg) ==
  LET src == IF arg.given /\ arg.val # <<>> THEN arg.val ELSE EnvAllowed
  IN {StripName(src[i]) : i \in DOMAIN src} \ {<<>>}

\* self.timeout_seconds: timeout_seconds or int(os.getenv(...))
InitTimeout(arg) == IF arg.given /\ arg.val # 0 THEN arg.val ELSE EnvTimeout

\* ShellExecutor(allowed_commands, timeout_seconds)
CtorInit ==
  /\ arg_allowed \in AllowedArgs
  /\ arg_timeout \in TimeoutArgs
  /\ allowed_commands = InitAllowed(arg_allowed)
  /\ timeout_seconds = InitTimeout(arg_timeout)
  /\ ex_pc = "idle"
  /\ ex_command = <<>>
  /\ ex_result = NoResult
  /\ child = "none"
  /\ spawned = 0
  /\ ex_elapsed = 0
  /\ child_exit = NoExit

\* ---------------------------------------------------------------- clock
\* ticks per second of the wall clock time.time()
TicksPerSec == 2
\* the replay window of verify_signature, in seconds
MaxSkew == 300
\* the clock (seconds) when the gateway starts
Epoch == 1000
\* how many small steps and how many window-sized jumps the clock takes
MaxTicks == 2
MaxJumps == 1

JumpTicks == MaxSkew * TicksPerSec
StartTick == Epoch * TicksPerSec

\* int(time.time())
IntTime(t) == t \div TicksPerSec

Abs(x) == IF x < 0 THEN -x ELSE x
Min(a, b) == IF a < b THEN a ELSE b

\* time passes by one tick
Tick ==
  /\ (now - StartTick) % JumpTicks < MaxTicks
  /\ now' = now + 1

\* the wall clock is set back by one tick
ClockBack ==
  /\ now > StartTick
  /\ (now - StartTick) % JumpTicks > 0
  /\ now' = now - 1

\* time passes by the length of the replay window
ClockJump ==
  /\ now + JumpTicks <= StartTick + MaxJumps * JumpTicks + MaxTicks
  /\ now' = now + JumpTicks

\* ---------------------------------------------------- verify_signature
AGENT_SHARED_SECRET == "change-me"
Keys == {AGENT_SHARED_SECRET, "other-key"}
Bodies == {"body1", "body2"}

\* A header value. fmt: "none" (header absent), "empty" (""), "junk" (text
\* that int() rejects), "plain" (decimal digits), "padded" (digits with
\* surrounding blanks, which int() accepts); val: the number written.
NoHeader == [fmt |-> "none", val |-> 0]
TsValues == {Epoch - MaxSkew - 1, Epoch - MaxSkew, Epoch, Epoch + 1,
             Epoch + MaxSkew, Epoch + MaxSkew + 1}
TsHeaders == {NoHeader, [fmt |-> "empty", val |-> 0], [fmt |-> "junk", val |-> 0]}
             \cup [fmt : {"plain", "padded"}, val : TsValues]
NumericTs == {h \in TsHeaders : h.fmt \in {"plain", "padded"}}

\* hmac.new(key, timestamp + b"." + body, sha256).hexdigest(): the digest is
\* taken to be collision free, so it is named by what it was computed over.
\* A numeric timestamp holds no ".", so the first "." of the message ends it
\* and the message determines the pair (timestamp, body).
Hmac(key, timestamp, body) ==
  [kind |-> "mac", key |-> key, ts |-> timestamp, body |-> body]

\* the other signature header values: absent, "", ASCII text that is no
\* digest, text with a non-ASCII character
OtherSig(kind) == [kind |-> kind, key |-> "", ts |-> NoHeader, body |-> ""]
Signatures == {OtherSig(k) : k \in {"none", "empty", "junk", "nonascii"}}
              \cup {Hmac(k, t, b) : k \in Keys, t \in NumericTs, b \in Bodies}

\* truth value of a header as Python's "not x" sees it
Truthy(h) == h # NoHeader /\ h.fmt # "empty"
TruthySig(g) == g.kind \notin {"none", "empty"}

\* verify_signature with a one-sided freshness test (only old requests)
VerifyOldOnly(x_timestamp, x_signature, body_bytes, t) ==
  IF ~Truthy(x_timestamp) \/ ~TruthySig(x_signature) THEN "missing auth headers"
  ELSE IF x_timestamp.fmt = "junk" THEN "invalid timestamp"
  ELSE IF IntTime(t) - x_timestamp.val > MaxSkew THEN "stale request"
  ELSE IF x_signature.kind = "nonascii" THEN "TypeError"
  ELSE IF Hmac(AGENT_SHARED_SECRET, x_timestamp, body_bytes) # x_signature
       THEN "bad signature"
  ELSE "ok"

\* verify_signature with the digest taken over the timestamp alone
VerifyNoBody(x_timestamp, x_signature, body_bytes, t) ==
  IF ~Truthy(x_timestamp) \/ ~TruthySig(x_signature) THEN "missing auth headers"
  ELSE IF x_timestamp.fmt = "junk" THEN "invalid timestamp"
  ELSE IF Abs(IntTime(t) - x_timestamp.val) > MaxSkew THEN "stale request"
  ELSE IF x_signature.kind = "nonascii" THEN "TypeError"
  ELSE IF Hmac(AGENT_SHARED_SECRET, x_timestamp, x_signature.body) # x_signature
       THEN "bad signature"
  ELSE "ok"

\* times one envelope is presented
MaxPresent == 3

\* verify_signature with a record of the envelopes seen: one that was
\* checked before is refused
VerifyOnce(x_timestamp, x_signature, body_bytes, t) ==
  IF ~Truthy(x_timestamp) \/ ~TruthySig(x_signature) THEN "missing auth headers"
  ELSE IF x_timestamp.fmt = "junk" THEN "invalid timestamp"
  ELSE IF Abs(IntTime(t) - x_timestamp.val) > MaxSkew THEN "stale request"
  ELSE IF x_signature.kind = "nonascii" THEN "TypeError"
  ELSE IF Hmac(AGENT_SHARED_SECRET, x_timestamp, body_bytes) # x_signature
       THEN "bad signature"
  ELSE IF au_presented > 0 THEN "replayed"
  ELSE "ok"

\* verify_signature(x_timestamp, x_signature, body_bytes) at clock t: the
\* detail of the HTTPException(401) it raises, "ok" when it returns, or
\* "TypeError" when hmac.compare_digest refuses a non-ASCII str
VerifySignature(x_timestamp, x_signature, body_bytes, t) ==
  IF ~Truthy(x_timestamp) \/ ~TruthySig(x_signature) THEN "missing auth headers"
  ELSE IF x_timestamp.fmt = "junk" THEN "invalid timestamp"
  ELSE IF Abs(IntTime(t) - x_timestamp.val) > MaxSkew THEN "stale request"
  ELSE IF x_signature.kind = "nonascii" THEN "TypeError"
  ELSE IF Hmac(AGENT_SHARED_SECRET, x_timestamp, body_bytes) # x_signature
       THEN "bad signature"
  ELSE "ok"

AuthInit ==
  /\ now = StartTick
  /\ au_timestamp \in TsHeaders
  /\ au_signature \in Signatures
  /\ au_body \in Bodies
  /\ au_pc = "ready"
  /\ au_at = 0
  /\ au_result = "none"
  /\ au_presented = 0

\* the envelope is presented and checked at the current time
Verify ==
  /\ au_pc = "ready"
  /\ au_result' = VerifySignature(au_timestamp, au_signature, au_body, now)
  /\ au_at' = now
  /\ au_pc' = "checked"
  /\ au_presented' = au_presented + 1
  /\ UNCHANGED <<now, au_timestamp, au_signature, au_body>>

\* somebody on the path replaces the body; the headers stay as they were
TamperBody(body) ==
  /\ au_pc = "ready"
  /\ body # au_body
  /\ au_body' = body
  /\ UNCHANGED <<now, au_timestamp, au_signature, au_pc, au_at, au_result, au_presented>>

\* the same envelope is presented again
Replay ==
  /\ au_pc = "checked"
  /\ au_presented < MaxPresent
  /\ au_pc' = "ready"
  /\ au_at' = 0
  /\ au_result' = "none"
  /\ UNCHANGED <<now, au_timestamp, au_signature, au_body, au_presented>>

\* ------------------------------------------------------------ rate_limit
Clients == {"ip1", "ip2"}
\* rates an operator may configure; 0 and less switch the limiter off
Rates == {-1, 0, 1, 2}
\* requests handled at the same time: by one process when the in-process map
\* is used, by one gateway instance each when they share the external store
Slots == {1, 2}
\* admissions counted per client and instant
MaxBurst == 4

\* Tokens are counted in units of 1/TicksPerSec token: one token is
\* TicksPerSec units, the capacity RATE_LIMIT_RPS * TicksPerSec units, and
\* d ticks refill d * RATE_LIMIT_RPS units.
OneToken == TicksPerSec
Capacity == RATE_LIMIT_RPS * TicksPerSec

EmptyMap == [c \in {} |-> [ts |-> 0, tok |-> 0]]
MapSet(f, k, v) == [c \in DOMAIN f \cup {k} |-> IF c = k THEN v ELSE f[c]]

\* the refill without the cap
RefillUncapped(b, t) == b.tok + (t - b.ts) * RATE_LIMIT_RPS

\* min(RATE_LIMIT_RPS, tokens + (now - bucket_ts) * RATE_LIMIT_RPS)
Refill(b, t) == Min(Capacity, b.tok + (t - b.ts) * RATE_LIMIT_RPS)

\* the test with the bound off by one
TooFewOrOne(tokens) == tokens <= OneToken

\* if tokens < 1
TooFew(tokens) == tokens < OneToken

\* an unseen client starting on an empty bucket
LocalGetEmpty(ip, t) ==
  IF ip \in DOMAIN last_seen THEN last_seen[ip] ELSE [ts |-> t, tok |-> 0]

\* last_seen.get(ip, (now, RATE_LIMIT_RPS))
LocalGet(ip, t) ==
  IF ip \in DOMAIN last_seen THEN last_seen[ip] ELSE [ts |-> t, tok |-> Capacity]

\* the fields ts and tok of hgetall(key), 0 when the key or field is missing
RedisGet(ip) ==
  IF ip \in DOMAIN redis THEN redis[ip] ELSE [ts |-> 0, tok |-> 0]

\* the in-process branch storing the refilled bucket also when it denies
LocalAdmitStoresDenied(ip, t) ==
  LET b == LocalGet(ip, t)
      tokens == Refill(b, t)
  IN IF TooFew(tokens)
     THEN [allowed |-> FALSE,
           map |-> MapSet(last_seen, ip, [ts |-> t, tok |-> tokens])]
     ELSE [allowed |-> TRUE,
           map |-> MapSet(last_seen, ip, [ts |-> t, tok |-> tokens - OneToken])]

\* the in-process branch of rate_limit for client ip at clock t: the decision
\* and the map it leaves
LocalAdmit(ip, t) ==
  LET b == LocalGet(ip, t)
      tokens == Refill(b, t)
  IN IF TooFew(tokens)
     THEN [allowed |-> FALSE, map |-> last_seen]
     ELSE [allowed |-> TRUE,
           map |-> MapSet(last_seen, ip, [ts |-> t, tok |-> tokens - OneToken])]

\* pc: where the request is; status: the HTTP status of the response; stages:
\* the stages it has passed; effects: the side-effecting calls made for it;
\* took: rate_limit stored a decremented bucket for it; overdrawn: when it
\* did, the stored bucket held less than one token; rl_now, rl_tokens: the
\* locals now and tokens of rate_limit between its two round trips; endpoint:
\* the endpoint whose body ran for it
IdleReq == [pc |-> "idle", ip |-> "", status |-> 0, stages |-> <<>>,
            effects |-> {}, took |-> FALSE, overdrawn |-> FALSE,
            rl_now |-> 0, rl_tokens |-> 0, endpoint |-> ""]

GateInit ==
  /\ now = StartTick
  /\ RATE_LIMIT_RPS \in Rates
  /\ redis_client \in BOOLEAN
  /\ last_seen = EmptyMap
  /\ redis = EmptyMap
  /\ req = [r \in Slots |-> IdleReq]

\* a privileged request of client ip arrives
Receive(r, ip) ==
  /\ req[r].pc = "idle"
  /\ req' = [req EXCEPT ![r] = [IdleReq EXCEPT !.pc = "received", !.ip = ip,
                                               !.stages = <<"Received">>]]
  /\ UNCHANGED <<now, RATE_LIMIT_RPS, redis_client, last_seen, redis>>

\* rate_limit with a rate of 0 or less handled like any other rate: the
\* bucket of the client is looked up and stored
RateLimitOffStores(r) ==
  /\ req[r].pc = "received"
  /\ RATE_LIMIT_RPS <= 0
  /\ last_seen' = MapSet(last_seen, req[r].ip, [ts |-> now, tok |-> 0])
  /\ req' = [req EXCEPT ![r].pc = "admitted",
                        ![r].stages = Append(@, "Admitted")]
  /\ UNCHANGED <<now, RATE_LIMIT_RPS, redis_client, redis>>

\* rate_limit, RATE_LIMIT_RPS <= 0: return at once
RateLimitOff(r) ==
  /\ req[r].pc = "received"
  /\ RATE_LIMIT_RPS <= 0
  /\ req' = [req EXCEPT ![r].pc = "admitted",
                        ![r].stages = Append(@, "Admitted")]
  /\ UNCHANGED <<now, RATE_LIMIT_RPS, redis_client, last_seen, redis>>

\* rate_limit, in-process branch: no await between the read and the write
RateLimitLocal(r) ==
  /\ req[r].pc = "received"
  /\ RATE_LIMIT_RPS > 0
  /\ ~redis_client
  /\ LET ip == req[r].ip
         a == LocalAdmit(ip, now)
     IN /\ last_seen' = a.map
        /\ IF a.allowed
           THEN req' = [req EXCEPT ![r].pc = "admitted", ![r].took = TRUE,
                                   ![r].overdrawn = TooFew(Refill(LocalGet(ip, now), now)),
                                   ![r].stages = Append(@, "Admitted")]
           ELSE req' = [req EXCEPT ![r].pc = "done", ![r].status = 429]
  /\ UNCHANGED <<now, RATE_LIMIT_RPS, redis_client, redis>>

\* rate_limit, shared-store branch, first round trip: hgetall, then the
\* refill and the test on the values read
RedisRead(r) ==
  /\ req[r].pc = "received"
  /\ RATE_LIMIT_RPS > 0
  /\ redis_client
  /\ LET ip == req[r].ip
         b == RedisGet(ip)
         tokens == Refill(b, now)
     IN IF TooFew(tokens)
        THEN req' = [req EXCEPT ![r].pc = "done", ![r].status = 429]
        ELSE req' = [req EXCEPT ![r].pc = "rl_write", ![r].rl_now = now,
                                ![r].rl_tokens = tokens]
  /\ UNCHANGED <<now, RATE_LIMIT_RPS, redis_client, last_seen, redis>>

\* second round trip: hmset {ts: now, tok: tokens - 1} and expire
RedisWrite(r) ==
  /\ req[r].pc = "rl_write"
  /\ redis' = MapSet(redis, req[r].ip,
                     [ts |-> req[r].rl_now, tok |-> req[r].rl_tokens - OneToken])
  /\ req' = [req EXCEPT ![r].pc = "admitted", ![r].took = TRUE,
                        ![r].overdrawn = TooFew(Refill(RedisGet(req[r].ip), now)),
                        ![r].rl_now = 0, ![r].rl_tokens = 0,
                        ![r].stages = Append(@, "Admitted")]
  /\ UNCHANGED <<now, RATE_LIMIT_RPS, redis_client, last_seen>>

\* a call to the shared store raises and rate_limit falls back on the
\* in-process branch
RedisErrorFallsBack(r) ==
  /\ redis_client
  /\ RATE_LIMIT_RPS > 0
  /\ req[r].pc \in {"received", "rl_write"}
  /\ LET a == LocalAdmit(req[r].ip, now)
     IN /\ last_seen' = a.map
        /\ IF a.allowed
           THEN req' = [req EXCEPT ![r].pc = "admitted",
                                   ![r].rl_now = 0, ![r].rl_tokens = 0,
                                   ![r].stages = Append(@, "Admitted")]
           ELSE req' = [req EXCEPT ![r].pc = "done", ![r].status = 429,
                                   ![r].rl_now = 0, ![r].rl_tokens = 0]
  /\ UNCHANGED <<now, RATE_LIMIT_RPS, redis_client, redis>>

\* a call to the shared store raises: "except Exception: pass"
RedisError(r) ==
  /\ redis_client
  /\ RATE_LIMIT_RPS > 0
  /\ req[r].pc \in {"received", "rl_write"}
  /\ req' = [req EXCEPT ![r].pc = "admitted",
                        ![r].rl_now = 0, ![r].rl_tokens = 0,
                        ![r].stages = Append(@, "Admitted")]
  /\ UNCHANGED <<now, RATE_LIMIT_RPS, redis_client, last_seen, redis>>

\* ------------------------------------------- rate_limit, fractional rates
\* RATE_LIMIT_RPS is a float: the rates here are fr_rps / RateDen for
\* fr_rps in 1..MaxRateNum, tokens are counted in units of
\* 1 / (TicksPerSec * RateDen) token, and a bucket carries the ticks since
\* it was written (now - ts) in place of ts. One second refills a bucket to
\* the cap, so an age beyond TicksPerSec need not be told apart.
RateDen == 2
MaxRateNum == 4

FracOne == TicksPerSec * RateDen
FracCap == fr_rps * TicksPerSec

\* last_seen.get(ip, (now, RATE_LIMIT_RPS)), and hgetall of a missing key
\* (ts 0, tok 0, so the age is that of the epoch)
FracGet(ip) ==
  IF ip \in DOMAIN fr_buckets THEN fr_buckets[ip]
  ELSE IF fr_redis THEN [age |-> TicksPerSec, tok |-> 0]
  ELSE [age |-> 0, tok |-> FracCap]

\* min(RATE_LIMIT_RPS, tokens + (now - ts) * RATE_LIMIT_RPS)
FracRefill(b) == Min(FracCap, b.tok + b.age * fr_rps)

FracInit ==
  /\ fr_rps \in 1..MaxRateNum
  /\ fr_redis \in BOOLEAN
  /\ fr_buckets = [c \in {} |-> [age |-> 0, tok |-> 0]]
  /\ fr_last = [c \in Clients |-> "none"]
  /\ fr_asked = [c \in Clients |-> 0]

\* one call of rate_limit for client ip (no failure of the shared store)
FracAdmit(ip) ==
  /\ fr_asked' = [fr_asked EXCEPT ![ip] = 1 - @]
  /\ LET tokens == FracRefill(FracGet(ip))
     IN IF tokens < FracOne
        THEN /\ fr_last' = [fr_last EXCEPT ![ip] = "denied"]
             /\ UNCHANGED fr_buckets
        ELSE /\ fr_last' = [fr_last EXCEPT ![ip] = "allowed"]
             /\ fr_buckets' = MapSet(fr_buckets, ip, [age |-> 0, tok |-> tokens - FracOne])
  /\ UNCHANGED <<fr_rps, fr_redis>>

\* time.time() goes on by one tick
FracTick ==
  /\ fr_buckets' = [c \in DOMAIN fr_buckets |->
                      [fr_buckets[c] EXCEPT !.age = Min(TicksPerSec, @ + 1)]]
  /\ UNCHANGED <<fr_rps, fr_redis, fr_last, fr_asked>>

\* ------------------------------------------------------------- endpoints
Endpoints == {"/invoke", "/shell", "/stream", "/partner"}
GateCmds == {<<"l">>, <<"L">>}

\* envelopes a client sends at clock t: signed over what is sent, signed over
\* another body, signed long ago, without headers
Envelope(ts, sig, body) == [ts |-> ts, sig |-> sig, body |-> body]
PlainTs(v) == [fmt |-> "plain", val |-> v]
Envelopes(t) ==
  { Envelope(PlainTs(IntTime(t)),
             Hmac(AGENT_SHARED_SECRET, PlainTs(IntTime(t)), "body1"), "body1"),
    Envelope(PlainTs(IntTime(t)),
             Hmac(AGENT_SHARED_SECRET, PlainTs(IntTime(t)), "body1"), "body2"),
    Envelope(PlainTs(IntTime(t) - MaxSkew - 1),
             Hmac(AGENT_SHARED_SECRET, PlainTs(IntTime(t) - MaxSkew - 1), "body1"), "body1"),
    Envelope(NoHeader, OtherSig("none"), "body1") }

\* what the body of each endpoint does once the signature is accepted; ok is
\* FALSE when a call in it raises. effects: the side-effecting calls made.
\* /shell: shell.run(command); /invoke: OllamaModel.invoke; /partner:
\* add_task, search_memory, llm.invoke, ContextStore.remember; /stream returns
\* the StreamingResponse, whose generator calls upstream afterwards.
Outcomes(endpoint, command) ==
  IF endpoint = "/shell"
  THEN IF IsAllowed(command)
       THEN {[ok |-> TRUE, effects |-> {"spawn"}], [ok |-> FALSE, effects |-> {}]}
       ELSE {[ok |-> TRUE, effects |-> {}]}
  ELSE IF endpoint = "/invoke"
  THEN {[ok |-> TRUE, effects |-> {"llm"}]}
  ELSE IF endpoint = "/partner"
  THEN {[ok |-> TRUE, effects |-> {"add_task", "search_memory", "llm", "remember"}],
        [ok |-> FALSE, effects |-> {"add_task"}]}
  ELSE {[ok |-> TRUE, effects |-> {}]}

\* the endpoint function with the body of the endpoint run before the
\* signature is looked at
HandleEffectsFirst(r, endpoint, env, command) ==
  /\ req[r].pc = "admitted"
  /\ LET v == VerifySignature(env.ts, env.sig, env.body, now) IN
     \E out \in Outcomes(endpoint, command) :
       req' = [req EXCEPT
                ![r].pc = IF endpoint = "/stream" /\ v = "ok" THEN "streaming" ELSE "done",
                ![r].status = IF v = "TypeError" THEN 500
                              ELSE IF v # "ok" THEN 401
                              ELSE IF out.ok THEN 200 ELSE 500,
                ![r].effects = out.effects,
                ![r].endpoint = endpoint,
                ![r].stages = IF v = "ok" /\ out.ok /\ endpoint # "/stream"
                              THEN @ \o <<"Dispatched", "Authenticated", "Completed">>
                              ELSE @ \o <<"Dispatched">>]
  /\ UNCHANGED <<now, RATE_LIMIT_RPS, redis_client, last_seen, redis>>

\* the endpoint function after "await request.body()": verify_signature, then
\* the body of the endpoint, with nothing awaited in between
Handle(r, endpoint, env, command) ==
  /\ req[r].pc = "admitted"
  /\ LET v == VerifySignature(env.ts, env.sig, env.body, now) IN
     IF v # "ok"
     THEN req' = [req EXCEPT ![r].pc = "done",
                             ![r].status = IF v = "TypeError" THEN 500 ELSE 401]
     ELSE \E out \in Outcomes(endpoint, command) :
             req' = [req EXCEPT
                ![r].pc = IF endpoint = "/stream" THEN "streaming" ELSE "done",
                ![r].status = IF out.ok THEN 200 ELSE 500,
                ![r].effects = out.effects,
                ![r].endpoint = endpoint,
                ![r].stages = IF out.ok /\ endpoint # "/stream"
                              THEN @ \o <<"Authenticated", "Dispatched", "Completed">>
                              ELSE @ \o <<"Authenticated", "Dispatched">>]
  /\ UNCHANGED <<now, RATE_LIMIT_RPS, redis_client, last_seen, redis>>

\* the generator of /stream posts to the completion service and relays it
StreamRun(r) ==
  /\ req[r].pc = "streaming"
  /\ req' = [req EXCEPT ![r].pc = "done", ![r].effects = {"llm_stream"},
                        ![r].stages = Append(@, "Completed")]
  /\ UNCHANGED <<now, RATE_LIMIT_RPS, redis_client, last_seen, redis>>

\* the response has been sent
Respond(r) ==
  /\ req[r].pc = "done"
  /\ req' = [req EXCEPT ![r] = IdleReq]
  /\ UNCHANGED <<now, RATE_LIMIT_RPS, redis_client, last_seen, redis>>

\* ------------------------------------------------- a burst of admissions
NoBurst == [full |-> FALSE, allowed |-> 0, denied |-> 0]

BurstInit ==
  /\ now = StartTick
  /\ RATE_LIMIT_RPS \in Rates
  /\ redis_client = FALSE
  /\ last_seen = EmptyMap
  /\ redis = EmptyMap
  /\ req = [r \in Slots |-> IdleReq]
  /\ burst = [c \in Clients |-> NoBurst]

\* one call of rate_limit for client ip with the in-process map; burst counts
\* the decisions of this instant and notes whether the first of them found
\* the bucket unseen or full
BurstAdmit(ip) ==
  /\ burst[ip].allowed + burst[ip].denied < MaxBurst
  /\ LET a == IF RATE_LIMIT_RPS <= 0
               THEN [allowed |-> TRUE, map |-> last_seen]
               ELSE LocalAdmit(ip, now)
         first == burst[ip].allowed + burst[ip].denied = 0
     IN /\ last_seen' = a.map
        /\ burst' = [burst EXCEPT
              ![ip].full = IF first THEN Refill(LocalGet(ip, now), now) = Capacity ELSE @,
              ![ip].allowed = IF a.allowed THEN @ + 1 ELSE @,
              ![ip].denied = IF a.allowed THEN @ ELSE @ + 1]
  /\ UNCHANGED <<now, RATE_LIMIT_RPS, redis_client, redis, req>>

\* the clock moves: the instant is over
BurstTick ==
  /\ Tick
  /\ burst' = [c \in Clients |-> NoBurst]
  /\ UNCHANGED gate_vars

BurstClockBack ==
  /\ ClockBack
  /\ burst' = [c \in Clients |-> NoBurst]
  /\ UNCHANGED gate_vars

GateIdle ==
  /\ RATE_LIMIT_RPS = 0
  /\ redis_client = FALSE
  /\ last_seen = EmptyMap
  /\ redis = EmptyMap
  /\ req = [r \in Slots |-> IdleReq]

BurstIdle == burst = [c \in Clients |-> NoBurst]

NoDec == [ip |-> "", at |-> 0, local |-> TRUE, shared |-> TRUE]
LimIdle == dec = NoDec

NoDict == [kind |-> "none"]
SwarmIdle ==
  /\ sw_pc = "idle"
  /\ sw_command = <<>>
  /\ sw_child = "none"
  /\ sw_spawned = 0
  /\ sw_result = NoDict

NoText == [kind |-> "unset", failed |-> FALSE, text |-> ""]
LlmIdle ==
  /\ llm_scheme = "http"
  /\ llm_pc = "idle"
  /\ llm_prompt = ""
  /\ llm_http = NoText
  /\ llm_cli = FALSE
  /\ llm_result = NoText

\* callers that use the store at the same time, each on its own connection
Procs == {1, 2}

NoCall == [op |-> "none"]
NoConn == [pc |-> "idle", op |-> "none"]
EmptyTasks == [i \in {} |-> [title |-> ""]]

\* the schema exists, both tables are empty, nobody is connected
StoreIdle ==
  /\ memory_fts = <<>>
  /\ tasks = EmptyTasks
  /\ task_seq = 0
  /\ st_clock = 0
  /\ st_call = NoCall
  /\ wlock = 0
  /\ conn = [p \in Procs |-> NoConn]
  /\ returned = <<>>

\* no request to /stream is open
StreamIdle ==
  /\ sr_pc = "none"
  /\ sr_lines = <<>>
  /\ sr_upstream = "none"
  /\ sr_client = "connected"
  /\ sr_sent = 0
  /\ sr_how = "none"

\* ShellExecutor() as main.py constructs it
CtorIdle ==
  /\ arg_allowed = NotGiven
  /\ arg_timeout = NotGiven

FracIdle ==
  /\ fr_rps = 1
  /\ fr_redis = FALSE
  /\ fr_buckets = EmptyMap
  /\ fr_last = [c \in Clients |-> "none"]
  /\ fr_asked = [c \in Clients |-> 0]

NoPlan == ""
NotReturned == [kind |-> "none"]

\* no call of partner is under way
PartnerIdle ==
  /\ pt_pc = "idle"
  /\ pt_instruction = <<>>
  /\ pt_task_id = 0
  /\ pt_recalls = <<>>
  /\ pt_plan = NoPlan
  /\ pt_logs = <<>>
  /\ pt_result = NotReturned

\* Task objects callers hand in. Ids are f"task_{datetime.now().timestamp()}":
\* the two tasks one request is parsed into are stamped a few statements
\* apart, and the same Task object may be handed in again.
TaskObjs == {"scan", "username", "audit", "report"}
TaskIdOf(o) ==
  IF o \in {"scan", "username"} THEN "task_1"
  ELSE IF o = "audit" THEN "task_2" ELSE "task_3"
AgentTypeOf(o) ==
  IF o = "scan" THEN "lotl_agent"
  ELSE IF o = "username" THEN "osint_agent"
  ELSE IF o = "audit" THEN "security_agent" ELSE "data_agent"
NoTask == "none"
NoTasks == [i \in {} |-> NoTask]
Pending == [status |-> "pending", result |-> "None"]

\* the orchestrator as constructed, no task handed in yet
OrchIdle ==
  /\ active_tasks = NoTasks
  /\ completed_tasks = NoTasks
  /\ task_state = [o \in TaskObjs |-> Pending]
  /\ et_pc = "idle"
  /\ et_task = NoTask
  /\ et_out = "None"

NoAnswer == [kind |-> "none"]

\* the agent as constructed, call not made yet
FallbackIdle ==
  /\ fb_agent = "weaviate-local"
  /\ fb_pc = "idle"
  /\ fb_task_type = ""
  /\ fb_prompt = ""
  /\ fb_invoked = <<>>
  /\ fb_raised = <<>>
  /\ fb_result = NoAnswer

ExtIdle == StreamIdle /\ CtorIdle /\ FracIdle /\ PartnerIdle /\ OrchIdle /\ FallbackIdle

StreamOthersIdle == CtorIdle /\ FracIdle /\ PartnerIdle /\ OrchIdle /\ FallbackIdle

CtorOthersIdle == StreamIdle /\ FracIdle /\ PartnerIdle /\ OrchIdle /\ FallbackIdle

FracOthersIdle == StreamIdle /\ CtorIdle /\ PartnerIdle /\ OrchIdle /\ FallbackIdle

PartnerOthersIdle == StreamIdle /\ CtorIdle /\ FracIdle /\ OrchIdle /\ FallbackIdle

OrchOthersIdle == StreamIdle /\ CtorIdle /\ FracIdle /\ PartnerIdle /\ FallbackIdle

FallbackOthersIdle == StreamIdle /\ CtorIdle /\ FracIdle /\ PartnerIdle /\ OrchIdle

MoreIdle == LimIdle /\ SwarmIdle /\ LlmIdle /\ StoreIdle /\ ExtIdle

\* ------------------------------------------- the two limiter backends
\* seconds after which the shared store drops a bucket that was not written
RedisTtl == 10

\* the shared-store branch of rate_limit for client ip at clock t with no
\* other call between its read and its write: the decision and the hashes
\* it leaves
RedisAdmit(ip, t) ==
  LET b == RedisGet(ip)
      tokens == Refill(b, t)
  IN IF TooFew(tokens)
     THEN [allowed |-> FALSE, map |-> redis]
     ELSE [allowed |-> TRUE,
           map |-> MapSet(redis, ip, [ts |-> t, tok |-> tokens - OneToken])]

LimInit ==
  /\ now = StartTick
  /\ RATE_LIMIT_RPS \in Rates
  /\ redis_client = FALSE
  /\ last_seen = EmptyMap
  /\ redis = EmptyMap
  /\ req = [r \in Slots |-> IdleReq]
  /\ dec = NoDec

\* one call of rate_limit for client ip, answered by the in-process branch
\* on last_seen and by the shared-store branch on redis
BothAdmit(ip) ==
  /\ LET off == RATE_LIMIT_RPS <= 0
         l == IF off THEN [allowed |-> TRUE, map |-> last_seen] ELSE LocalAdmit(ip, now)
         s == IF off THEN [allowed |-> TRUE, map |-> redis] ELSE RedisAdmit(ip, now)
     IN /\ last_seen' = l.map
        /\ redis' = s.map
        /\ dec' = [ip |-> ip, at |-> now, local |-> l.allowed, shared |-> s.allowed]
  /\ UNCHANGED <<now, RATE_LIMIT_RPS, redis_client, req>>

\* expire(key, 10): the shared store drops the hash of a client RedisTtl
\* seconds after its last write
RedisExpire(ip) ==
  /\ ip \in DOMAIN redis
  /\ now - redis[ip].ts >= RedisTtl * TicksPerSec
  /\ redis' = [c \in DOMAIN redis \ {ip} |-> redis[c]]
  /\ UNCHANGED <<now, RATE_LIMIT_RPS, redis_client, last_seen, req, dec>>

\* ------------------------------------------------------- LOTLAgent (swarm)
\* execute_shell_command(command): shlex.split, then subprocess.run of the
\* words with a timeout of 30 seconds and check=False; every exception is
\* turned into an error dict. No allowlist is consulted.
LotlNoSpawn(command) ==
  /\ sw_pc = "idle"
  /\ LET sp == ShlexSplit(command) IN
     /\ ~sp.ok \/ sp.parts = <<>>
     /\ sw_result' = [kind |-> "error",
                      error |-> IF ~sp.ok THEN "ValueError" ELSE "IndexError"]
  /\ sw_command' = command
  /\ sw_pc' = "returned"
  /\ sw_child' = "none"
  /\ sw_spawned' = 0

LotlSpawn(command) ==
  /\ sw_pc = "idle"
  /\ LET sp == ShlexSplit(command) IN sp.ok /\ sp.parts # <<>>
  /\ sw_command' = command
  /\ sw_pc' = "waiting"
  /\ sw_child' = "running"
  /\ sw_spawned' = 1
  /\ sw_result' = NoDict

\* the program named by the first word cannot be started
LotlSpawnFails(command) ==
  /\ sw_pc = "idle"
  /\ LET sp == ShlexSplit(command) IN sp.ok /\ sp.parts # <<>>
  /\ sw_command' = command
  /\ sw_pc' = "returned"
  /\ sw_child' = "none"
  /\ sw_spawned' = 0
  /\ sw_result' = [kind |-> "error", error |-> "OSError"]

\* the child ends within the 30 seconds, with any exit code
LotlChildExits(code, out, err) ==
  /\ sw_pc = "waiting"
  /\ sw_child = "running"
  /\ sw_child' = "exited"
  /\ sw_result' = [kind |-> "completed", stdout |-> out, stderr |-> err,
                   returncode |-> code]
  /\ sw_pc' = "returned"
  /\ UNCHANGED <<sw_command, sw_spawned>>

\* the child is still running after 30 seconds: it is killed and reaped
LotlTimeout ==
  /\ sw_pc = "waiting"
  /\ sw_child = "running"
  /\ sw_child' = "killed"
  /\ sw_result' = [kind |-> "error", error |-> "Command timed out"]
  /\ sw_pc' = "returned"
  /\ UNCHANGED <<sw_command, sw_spawned>>

\* the task has its result; the agent takes the next one
LotlAgain ==
  /\ sw_pc = "returned"
  /\ sw_pc' = "idle"
  /\ sw_command' = <<>>
  /\ sw_child' = "none"
  /\ sw_spawned' = 0
  /\ sw_result' = NoDict

\* ------------------------------------------------------------ OllamaModel
\* A text is the sequence of its pieces; Mark is the cross every diagnostic
\* of the client starts with. A value is None or a str.
Mark == "x-mark"
None == [kind |-> "None", text |-> <<>>]
Str(pieces) == [kind |-> "str", text |-> pieces]

\* result.startswith(Mark)
StartsWithMark(v) == v.kind = "str" /\ Len(v.text) > 0 /\ v.text[1] = Mark

Schemes == {"http", "https", "file"}
Prompts == {"p1", "p2"}

\* what the completion service does with the POST: the connection fails or
\* times out, it answers with a status outside 2xx, or it answers 2xx with a
\* body that is not JSON, or with a JSON object whose field response is a
\* completion, is empty, or is a completion that itself begins with the cross
HttpReplies ==
  {[kind |-> "exception", status |-> 0, response |-> <<>>],
   [kind |-> "status", status |-> 404, response |-> <<>>],
   [kind |-> "status", status |-> 500, response |-> <<>>],
   [kind |-> "notjson", status |-> 200, response |-> <<>>],
   [kind |-> "json", status |-> 200, response |-> <<"completion">>],
   [kind |-> "json", status |-> 200, response |-> <<>>],
   [kind |-> "json", status |-> 200, response |-> <<Mark, "completion">>]}

\* a status code written out in an f-string
StatusText(status) == IF status = 404 THEN "404" ELSE IF status = 500 THEN "500" ELSE "200"

\* the value _invoke_http returns for a scheme and a reply
HttpResult(scheme, reply) ==
  IF scheme \notin {"http", "https"} THEN None
  ELSE IF reply.kind = "exception"
  THEN Str(<<Mark, "Ollama HTTP error", "ConnectionRefusedError">>)
  ELSE IF ~(reply.status >= 200 /\ reply.status < 300)
  THEN Str(<<Mark, "Ollama HTTP", StatusText(reply.status), "data">>)
  ELSE IF reply.kind = "notjson"
  THEN Str(<<Mark, "Ollama HTTP error", "JSONDecodeError">>)
  ELSE IF reply.response # <<>> THEN Str(reply.response)
  ELSE Str(<<"data">>)

\* what "ollama run" does: it cannot be started or runs out of time, it
\* exits nonzero, or it exits with 0 and a completion or nothing on stdout
CliRuns == {"exception", "failed", "completion", "empty"}

\* the value _invoke_cli returns
CliResult(run) ==
  IF run = "exception" THEN Str(<<Mark, "Ollama CLI error", "exc">>)
  ELSE IF run = "failed" THEN Str(<<Mark, "Ollama CLI error", "stderr">>)
  ELSE IF run = "completion" THEN Str(<<"completion">>)
  ELSE Str(<<>>)

LlmInit ==
  /\ llm_scheme \in Schemes
  /\ llm_pc = "idle"
  /\ llm_prompt = ""
  /\ llm_http = NoText
  /\ llm_cli = FALSE
  /\ llm_result = NoText

\* _invoke_http with the exception of a failed connection left uncaught
InvokeHttpRaises(prompt, reply) ==
  /\ llm_pc = "idle"
  /\ llm_prompt' = prompt
  /\ llm_http' = HttpResult(llm_scheme, reply)
  /\ llm_pc' = IF llm_scheme \in {"http", "https"} /\ reply.kind = "exception"
               THEN "raised" ELSE "http_done"
  /\ UNCHANGED <<llm_scheme, llm_cli, llm_result>>

\* invoke(prompt), line 75: result = self._invoke_http(prompt)
InvokeHttp(prompt, reply) ==
  /\ llm_pc = "idle"
  /\ llm_prompt' = prompt
  /\ llm_http' = HttpResult(llm_scheme, reply)
  /\ llm_pc' = "http_done"
  /\ UNCHANGED <<llm_scheme, llm_cli, llm_result>>

\* invoke, lines 76-78: no result or a diagnostic: return self._invoke_cli(prompt)
InvokeCli(run) ==
  /\ llm_pc = "http_done"
  /\ llm_http = None \/ StartsWithMark(llm_http)
  /\ llm_cli' = TRUE
  /\ llm_result' = CliResult(run)
  /\ llm_pc' = "returned"
  /\ UNCHANGED <<llm_scheme, llm_prompt, llm_http>>

\* invoke, line 79: return result
InvokeReturn ==
  /\ llm_pc = "http_done"
  /\ ~(llm_http = None \/ StartsWithMark(llm_http))
  /\ llm_result' = llm_http
  /\ llm_pc' = "returned"
  /\ UNCHANGED <<llm_scheme, llm_prompt, llm_http, llm_cli>>

\* the caller has the text; the next prompt may come
InvokeAgain ==
  /\ llm_pc \in {"returned", "raised"}
  /\ llm_pc' = "idle"
  /\ llm_prompt' = ""
  /\ llm_http' = NoText
  /\ llm_cli' = FALSE
  /\ llm_result' = NoText
  /\ UNCHANGED llm_scheme

\* ------------------------------------------------------- semantic_store
\* A text is the sequence of its blank-separated pieces. Pieces are two
\* forms of one word, the FTS5 operator NOT and a punctuation mark.
Words == {"cat", "cats"}
Pieces == Words \cup {"NOT", "-"}

\* texts that are remembered and searched for: a word, its plural, a word
\* twice, a text that reads as a query with an operator, one that ends in
\* an operator, one that is an operator, and two with punctuation
Texts == {<<"cat">>, <<"cats">>, <<"cat", "cat">>, <<"cat", "NOT", "cats">>,
          <<"cat", "NOT">>, <<"NOT">>, <<"cat", "-", "cats">>, <<"-">>}

\* the metadata argument: None, or the dict the console path passes
NoMeta == [kind |-> "None", cmd |-> <<>>]
Metadatas == {NoMeta, [kind |-> "dict", cmd |-> <<"cat">>]}

\* rows the FTS5 table holds at most
MaxRows == 2
\* values of the argument limit: one, and the default
Limits == {1, 5}

\* the tokenizer 'porter' over unicode61: pieces are split at punctuation,
\* folded to lower case and stemmed
Lower(t) == IF t = "NOT" THEN "not" ELSE t
Stem(t) == IF t = "cats" THEN "cat" ELSE t
Tokenize(text) ==
  LET kept == SelectSeq(text, LAMBDA t : t # "-")
  IN [i \in 1..Len(kept) |-> Stem(Lower(kept[i]))]

\* (metadata and str(metadata)) or "{}", tokenized: the keys and values of
\* {'source': 'console', 'cmd': cmd}
MetaTokens(m) ==
  IF m.kind = "None" THEN <<>>
  ELSE <<"sourc", "consol", "cmd">> \o Tokenize(m.cmd)

\* the tokens of the indexed columns content and metadata of a row
RowTokens(row) == Tokenize(row.content) \o MetaTokens(row.metadata)

Range(f) == {f[i] : i \in DOMAIN f}

\* the FTS5 query grammar over these pieces: words, implicitly joined by
\* AND, in groups separated by the binary operator NOT; anything else is
\* rejected by the parser
QueryOk(q) ==
  /\ q # <<>>
  /\ \A i \in 1..Len(q) : q[i] # "-"
  /\ q[1] # "NOT" /\ q[Len(q)] # "NOT"
  /\ \A i \in 1..(Len(q) - 1) : ~(q[i] = "NOT" /\ q[i + 1] = "NOT")

\* the group a piece of the query belongs to
GroupOf(q, i) == 1 + Cardinality({j \in 1..(i - 1) : q[j] = "NOT"})

\* every word of group k is among the tokens
GroupHolds(q, k, toks) ==
  \A i \in 1..Len(q) :
    (q[i] # "NOT" /\ GroupOf(q, i) = k) => Stem(Lower(q[i])) \in Range(toks)

\* memory_fts MATCH q for one row: the first group holds and no later one
Matches(q, row) ==
  /\ GroupHolds(q, 1, RowTokens(row))
  /\ \A k \in 2..GroupOf(q, Len(q)) : ~GroupHolds(q, k, RowTokens(row))

Matching(q) == {i \in 1..Len(memory_fts) : Matches(q, memory_fts[i])}

\* the terms bm25 scores: the words of the first group
QueryTerms(q) == {Stem(Lower(q[i])) : i \in {j \in 1..Len(q) : q[j] # "NOT" /\ GroupOf(q, j) = 1}}

RECURSIVE TotalTokens(_)
TotalTokens(n) ==
  IF n = 0 THEN 0 ELSE Len(RowTokens(memory_fts[n])) + TotalTokens(n - 1)

TermFreq(t, row) == Cardinality({i \in 1..Len(RowTokens(row)) : RowTokens(row)[i] = t})

\* ORDER BY rank: row a is at least as relevant as row b. bm25 gives a term
\* with frequency tf in a row of len tokens the weight
\* idf * tf * (k1 + 1) / (tf + k1 * (1 - b + b * len / avgdl)) with k1 = 1.2
\* and b = 0.75, so for one term a beats b exactly when
\* tf_a * (T + 3 * N * len_b) > tf_b * (T + 3 * N * len_a), T the tokens and N
\* the rows of the table.
RankLeq(q, a, b) ==
  LET N == Len(memory_fts)
      T == TotalTokens(N)
      la == Len(RowTokens(memory_fts[a]))
      lb == Len(RowTokens(memory_fts[b]))
  IN \A t \in QueryTerms(q) :
       TermFreq(t, memory_fts[a]) * (T + 3 * N * lb)
         >= TermFreq(t, memory_fts[b]) * (T + 3 * N * la)

\* SELECT ... WHERE memory_fts MATCH q ORDER BY rank LIMIT limit: the rowids
\* the query may return. Rows of equal rank come in an order SQL leaves
\* open.
SearchRows(q, limit) ==
  LET M == Matching(q)
      k == Min(limit, Cardinality(M))
  IN {r \in [1..k -> M] :
        /\ \A i, j \in 1..k : i # j => r[i] # r[j]
        /\ \A i, j \in 1..k : i < j => RankLeq(q, r[i], r[j])
        /\ \A m \in M \ Range(r) : k > 0 /\ RankLeq(q, r[k], m)}

\* a search that answers a query the parser rejects with no rows
SearchResultsLenient(q, limit) ==
  IF QueryOk(q)
  THEN {[kind |-> "rows", rows |-> r] : r \in SearchRows(q, limit)}
  ELSE {[kind |-> "rows", rows |-> <<>>]}

\* what search_memory gives: the rows, or the error of the FTS5 parser
SearchResults(q, limit) ==
  IF QueryOk(q)
  THEN {[kind |-> "rows", rows |-> r] : r \in SearchRows(q, limit)}
  ELSE {[kind |-> "OperationalError", rows |-> <<>>]}

\* upsert_memory(content, metadata): one INSERT, committed before it returns
\* INSERT OR REPLACE keyed on the content: a row of the same content is
\* rewritten in place
RememberUpsert(content, metadata) ==
  /\ Len(memory_fts) < MaxRows
  /\ st_clock' = st_clock + 1
  /\ memory_fts' =
       (LET row == [content |-> content, metadata |-> metadata,
                    created_at |-> st_clock + 1]
        IN IF \E i \in DOMAIN memory_fts : memory_fts[i].content = content
           THEN [i \in DOMAIN memory_fts |->
                   IF memory_fts[i].content = content THEN row ELSE memory_fts[i]]
           ELSE Append(memory_fts, row))
  /\ st_call' = [op |-> "remember", content |-> content]
  /\ UNCHANGED <<tasks, task_seq, wlock, conn, returned>>

\* upsert_memory(content, metadata): a plain INSERT, then commit
Remember(content, metadata) ==
  /\ Len(memory_fts) < MaxRows
  /\ st_clock' = st_clock + 1
  /\ memory_fts' = Append(memory_fts, [content |-> content, metadata |-> metadata,
                                       created_at |-> st_clock + 1])
  /\ st_call' = [op |-> "remember", content |-> content]
  /\ UNCHANGED <<tasks, task_seq, wlock, conn, returned>>

\* search_memory(query, limit); prev notes the text of a remember that was
\* the call just before
Search(query, limit) ==
  /\ \E res \in SearchResults(query, limit) :
       st_call' = [op |-> "search", query |-> query, limit |-> limit, result |-> res,
                   prev |-> IF st_call.op = "remember" THEN st_call.content ELSE <<>>]
  /\ UNCHANGED <<memory_fts, tasks, task_seq, st_clock, wlock, conn, returned>>

\* ----------------------------------------------------------------- tasks
\* tasks the table holds at most, and writes to it the clock counts
MaxTasks == 2
MaxStamps == 4

Titles == {"t1", "t2"}
Priorities == {1, 5}
\* the statuses the schema documents, and the values callers pass
Statuses == {"queued", "in_progress", "completed", "failed"}
StatusArgs == Statuses \cup {"bogus"}
\* status=None of list_tasks
NoFilter == ""

\* ORDER BY id ASC alone
SortTasksById(S) ==
  CHOOSE r \in [1..Cardinality(S) -> S] :
    \A i, j \in 1..Cardinality(S) : i < j => r[i] < r[j]

\* ORDER BY priority ASC, id ASC over the ids S
SortTasks(S) ==
  CHOOSE r \in [1..Cardinality(S) -> S] :
    \A i, j \in 1..Cardinality(S) :
      i < j => \/ tasks[r[i]].priority < tasks[r[j]].priority
               \/ /\ tasks[r[i]].priority = tasks[r[j]].priority
                  /\ r[i] < r[j]

\* add_task(title, description, priority): INSERT with status 'queued';
\* AUTOINCREMENT gives the id after the largest ever used; returns lastrowid
AddTask(title, description, priority) ==
  /\ Cardinality(DOMAIN tasks) < MaxTasks
  /\ st_clock < MaxStamps
  /\ st_clock' = st_clock + 1
  /\ task_seq' = task_seq + 1
  /\ tasks' = [i \in DOMAIN tasks \cup {task_seq + 1} |->
                 IF i = task_seq + 1
                 THEN [title |-> title, description |-> description,
                       status |-> "queued", priority |-> priority,
                       created_at |-> st_clock + 1, updated_at |-> 0]
                 ELSE tasks[i]]
  /\ st_call' = [op |-> "add_task", result |-> task_seq + 1]
  /\ UNCHANGED <<memory_fts, wlock, conn, returned>>

\* list_tasks(status): the ids of the rows returned, in order
ListTasks(status) ==
  /\ st_call' = [op |-> "list_tasks", status |-> status,
                 result |-> IF status # NoFilter
                            THEN SortTasks({i \in DOMAIN tasks : tasks[i].status = status})
                            ELSE SortTasks(DOMAIN tasks)]
  /\ UNCHANGED <<memory_fts, tasks, task_seq, st_clock, wlock, conn, returned>>

\* an UPDATE without the WHERE clause
UpdateEveryTask(task_id, status) ==
  /\ st_clock < MaxStamps
  /\ st_clock' = st_clock + 1
  /\ tasks' = [i \in DOMAIN tasks |->
                 [tasks[i] EXCEPT !.status = status, !.updated_at = st_clock + 1]]
  /\ st_call' = [op |-> "update_task_status", id |-> task_id, status |-> status,
                 result |-> "None"]
  /\ UNCHANGED <<memory_fts, task_seq, wlock, conn, returned>>

\* update_task_status(task_id, status): UPDATE ... WHERE id=?; the number
\* of rows changed is not looked at and nothing is returned
UpdateTaskStatus(task_id, status) ==
  /\ st_clock < MaxStamps
  /\ st_clock' = st_clock + 1
  /\ tasks' = [i \in DOMAIN tasks |->
                 IF i = task_id
                 THEN [tasks[i] EXCEPT !.status = status, !.updated_at = st_clock + 1]
                 ELSE tasks[i]]
  /\ st_call' = [op |-> "update_task_status", id |-> task_id, status |-> status,
                 result |-> "None"]
  /\ UNCHANGED <<memory_fts, task_seq, wlock, conn, returned>>

\* ---------------------------------------------------- concurrent callers
\* Every call opens a connection of its own (_connect); the callers are the
\* processes and threads that share the database file.
\* calls that are begun in one run
MaxCalls == 3

ConcTexts == {<<"cat">>, <<"cats">>}

Begun == Len(returned) + Cardinality({q \in Procs : conn[q].pc # "idle"})

\* add_task up to the call of execute: ensure_schema, _connect, and the
\* arguments of the INSERT are evaluated, utcnow() among them
BeginAddTask(p, title) ==
  /\ conn[p].pc = "idle"
  /\ Begun < MaxCalls
  /\ st_clock < MaxStamps
  /\ st_clock' = st_clock + 1
  /\ conn' = [conn EXCEPT ![p] = [pc |-> "connected", op |-> "add_task", arg |-> title,
                                  stamp |-> st_clock + 1, rowid |-> 0, rows |-> {}]]
  /\ UNCHANGED <<memory_fts, tasks, task_seq, st_call, wlock, returned>>

\* upsert_memory up to the call of execute
BeginRemember(p, content) ==
  /\ conn[p].pc = "idle"
  /\ Begun < MaxCalls
  /\ st_clock < MaxStamps
  /\ st_clock' = st_clock + 1
  /\ conn' = [conn EXCEPT ![p] = [pc |-> "connected", op |-> "remember", arg |-> content,
                                  stamp |-> st_clock + 1, rowid |-> 0, rows |-> {}]]
  /\ UNCHANGED <<memory_fts, tasks, task_seq, st_call, wlock, returned>>

\* search_memory up to the call of execute
BeginSearch(p, query) ==
  /\ conn[p].pc = "idle"
  /\ Begun < MaxCalls
  /\ conn' = [conn EXCEPT ![p] = [pc |-> "connected", op |-> "search", arg |-> query,
                                  stamp |-> 0, rowid |-> 0, rows |-> {}]]
  /\ UNCHANGED <<memory_fts, tasks, task_seq, st_clock, st_call, wlock, returned>>

\* the database has one write lock: an INSERT starts the transaction of its
\* connection and takes the lock, which commit gives back
CanWrite(p) == wlock = 0

\* INSERT INTO tasks: AUTOINCREMENT hands out the id after the greatest id
\* ever used; the row is in the transaction of p and not visible to others
InsertTask(p) ==
  /\ conn[p].pc = "connected"
  /\ conn[p].op = "add_task"
  /\ CanWrite(p)
  /\ Cardinality(DOMAIN tasks) < MaxTasks
  /\ wlock' = p
  /\ conn' = [conn EXCEPT ![p].pc = "inserted", ![p].rowid = task_seq + 1]
  /\ UNCHANGED <<memory_fts, tasks, task_seq, st_clock, st_call, returned>>

\* INSERT INTO memory_fts has begun: the lock is taken and part of the row
\* and of its index is written to the write-ahead log
InsertMemory(p) ==
  /\ conn[p].pc = "connected"
  /\ conn[p].op = "remember"
  /\ CanWrite(p)
  /\ Len(memory_fts) < MaxRows
  /\ wlock' = p
  /\ conn' = [conn EXCEPT ![p].pc = "writing", ![p].rowid = Len(memory_fts) + 1]
  /\ UNCHANGED <<memory_fts, tasks, task_seq, st_clock, st_call, returned>>

\* the INSERT INTO memory_fts has written the rest of the row
InsertMemoryDone(p) ==
  /\ conn[p].pc = "writing"
  /\ conn' = [conn EXCEPT ![p].pc = "inserted"]
  /\ UNCHANGED <<memory_fts, tasks, task_seq, st_clock, st_call, wlock, returned>>

\* the row connection q has written so far; 0 stands for a column not
\* written yet
PendingRow(q) ==
  [content |-> conn[q].arg, metadata |-> NoMeta,
   created_at |-> IF conn[q].pc = "writing" THEN 0 ELSE conn[q].stamp]

\* conn.commit(): the transaction becomes visible as a whole and the lock
\* is given back
Commit(p) ==
  /\ conn[p].pc = "inserted"
  /\ wlock' = 0
  /\ conn' = [conn EXCEPT ![p].pc = "committed"]
  /\ IF conn[p].op = "add_task"
     THEN /\ tasks' = [i \in DOMAIN tasks \cup {conn[p].rowid} |->
                         IF i = conn[p].rowid
                         THEN [title |-> conn[p].arg, description |-> "d",
                               status |-> "queued", priority |-> 5,
                               created_at |-> conn[p].stamp, updated_at |-> 0]
                         ELSE tasks[i]]
          /\ task_seq' = conn[p].rowid
          /\ UNCHANGED memory_fts
     ELSE /\ memory_fts' = Append(memory_fts, PendingRow(p))
          /\ UNCHANGED <<tasks, task_seq>>
  /\ UNCHANGED <<st_clock, st_call, returned>>

\* the busy timeout of 5 s runs out while another connection holds the
\* lock: execute raises OperationalError (database is locked), nothing is
\* written
Busy(p) ==
  /\ conn[p].pc = "connected"
  /\ conn[p].op \in {"add_task", "remember"}
  /\ wlock \notin {0, p}
  /\ returned' = Append(returned, [proc |-> p, op |-> conn[p].op,
                                   kind |-> "OperationalError", arg |-> conn[p].arg,
                                   stamp |-> conn[p].stamp, id |-> 0, rows |-> {}])
  /\ conn' = [conn EXCEPT ![p] = NoConn]
  /\ UNCHANGED <<memory_fts, tasks, task_seq, st_clock, st_call, wlock>>

\* what a read of connection p sees: the rows committed so far and no row of
\* an open transaction of another connection
SnapshotDirty(p) ==
  IF wlock \notin {0, p} /\ conn[wlock].op = "remember"
  THEN Append(memory_fts, PendingRow(wlock))
  ELSE memory_fts

Snapshot(p) == memory_fts

\* the SELECT of search_memory and fetchall: the matching rows of the
\* snapshot (the limit is above the number of rows here)
SearchRead(p) ==
  /\ conn[p].pc = "connected"
  /\ conn[p].op = "search"
  /\ conn' = [conn EXCEPT ![p].pc = "read",
                          ![p].rows = {Snapshot(p)[i] : i \in
                             {k \in DOMAIN Snapshot(p) :
                                Matches(conn[p].arg, Snapshot(p)[k])}}]
  /\ UNCHANGED <<memory_fts, tasks, task_seq, st_clock, st_call, wlock, returned>>

\* the id of the task row that p has inserted, read from every connection's
\* committed counter
LastRowIdShared(p) == task_seq

\* cur.lastrowid: the rowid of the INSERT of this cursor
LastRowId(p) == conn[p].rowid

\* the call returns: int(cur.lastrowid), None, or the list of rows
Return(p) ==
  /\ conn[p].pc \in {"committed", "read"}
  /\ returned' = Append(returned, [proc |-> p, op |-> conn[p].op, kind |-> "ok",
                                   arg |-> conn[p].arg, stamp |-> conn[p].stamp,
                                   id |-> IF conn[p].op = "add_task" THEN LastRowId(p) ELSE 0,
                                   rows |-> conn[p].rows])
  /\ conn' = [conn EXCEPT ![p] = NoConn]
  /\ UNCHANGED <<memory_fts, tasks, task_seq, st_clock, st_call, wlock>>

\* ------------------------------------------------------------ /stream
\* lines the completion service sends before it ends the response
MaxLines == 3

\* a line of the upstream response: empty (skipped by gen) or a chunk
Lines == {"", "tok"}
RECURSIVE SeqsUpTo(_)
SeqsUpTo(n) ==
  IF n = 0 THEN {<<>>}
  ELSE SeqsUpTo(n - 1) \cup {Append(b, l) : b \in {c \in SeqsUpTo(n - 1) : Len(c) = n - 1},
                                            l \in Lines}
UpstreamBodies == SeqsUpTo(MaxLines)

\* StreamingResponse(gen(), ...): the response starts to run gen
StreamStart(body) ==
  /\ sr_pc = "none"
  /\ sr_pc' = "connecting"
  /\ sr_lines' = body
  /\ sr_upstream' = "none"
  /\ sr_client' = "connected"
  /\ sr_sent' = 0
  /\ sr_how' = "none"

\* async with httpx.AsyncClient(...), async with client.stream("POST", ...):
\* the request is sent and the response headers are in
GenConnect ==
  /\ sr_pc = "connecting"
  /\ sr_pc' = "reading"
  /\ sr_upstream' = "open"
  /\ UNCHANGED <<sr_lines, sr_client, sr_sent, sr_how>>

\* the request to the completion service fails: client.stream raises, no
\* upstream response was opened
GenConnectFails ==
  /\ sr_pc = "connecting"
  /\ sr_pc' = "closed"
  /\ sr_how' = "error"
  /\ UNCHANGED <<sr_lines, sr_upstream, sr_client, sr_sent>>

\* async for line in r.aiter_lines(): an empty line is skipped, any other
\* line is yielded
GenReadLine ==
  /\ sr_pc = "reading"
  /\ sr_lines # <<>>
  /\ sr_lines' = Tail(sr_lines)
  /\ sr_pc' = IF Head(sr_lines) = "" THEN "reading" ELSE "yielded"
  /\ UNCHANGED <<sr_upstream, sr_client, sr_sent, sr_how>>

\* leaving both async with blocks, by the end of the loop or by an exception
\* thrown into gen: the upstream response and the client are closed. (A gen
\* that opened the stream without a with block would leave them open.)
UnwindLeak(upstream) == upstream

Unwind(upstream) == IF upstream = "open" THEN "closed" ELSE upstream

\* the completion service ends its response: the loop ends
GenEof ==
  /\ sr_pc = "reading"
  /\ sr_lines = <<>>
  /\ sr_pc' = "closed"
  /\ sr_how' = "eof"
  /\ sr_upstream' = Unwind(sr_upstream)
  /\ UNCHANGED <<sr_lines, sr_client, sr_sent>>

\* no line within timeout=60.0: aiter_lines raises ReadTimeout
GenReadTimeout ==
  /\ sr_pc = "reading"
  /\ sr_pc' = "closed"
  /\ sr_how' = "error"
  /\ sr_upstream' = Unwind(sr_upstream)
  /\ UNCHANGED <<sr_lines, sr_client, sr_sent>>

\* the chunk yielded goes out to the client and gen is resumed
GenSend ==
  /\ sr_pc = "yielded"
  /\ sr_client = "connected"
  /\ sr_sent' = sr_sent + 1
  /\ sr_pc' = "reading"
  /\ UNCHANGED <<sr_lines, sr_upstream, sr_client, sr_how>>

\* the client of /stream goes away while the response is running
Disconnect ==
  /\ sr_pc \in {"connecting", "reading", "yielded"}
  /\ sr_client = "connected"
  /\ sr_client' = "gone"
  /\ UNCHANGED <<sr_pc, sr_lines, sr_upstream, sr_sent, sr_how>>

\* the response task is cancelled for the disconnect while gen waits for the
\* completion service: CancelledError is raised at that await inside gen
GenCancelled ==
  /\ sr_client = "gone"
  /\ sr_pc \in {"connecting", "reading"}
  /\ sr_pc' = "closed"
  /\ sr_how' = "cancelled"
  /\ sr_upstream' = Unwind(sr_upstream)
  /\ UNCHANGED <<sr_lines, sr_client, sr_sent>>

\* the chunk cannot be sent any more; the response drops gen, suspended at
\* its yield, and the event loop finalises it with aclose(): GeneratorExit
\* is raised at the yield
GenClosed ==
  /\ sr_client = "gone"
  /\ sr_pc = "yielded"
  /\ sr_pc' = "closed"
  /\ sr_how' = "aclose"
  /\ sr_upstream' = Unwind(sr_upstream)
  /\ UNCHANGED <<sr_lines, sr_client, sr_sent>>

\* the request is over; the next one may come
StreamAgain ==
  /\ sr_pc = "closed"
  /\ sr_pc' = "none"
  /\ sr_lines' = <<>>
  /\ sr_upstream' = "none"
  /\ sr_client' = "connected"
  /\ sr_sent' = 0
  /\ sr_how' = "none"

\* a step of gen or of the response that drives it
GenStep ==
  /\ \/ GenConnect \/ GenConnectFails \/ GenReadLine \/ GenEof \/ GenReadTimeout
     \/ GenSend \/ GenCancelled \/ GenClosed
  /\ UNCHANGED but_stream

\* ------------------------------------------------ LotlOpsDaemon.partner
\* instructions: a word, a text with punctuation and an operator alone
Instructions == {<<"cat">>, <<"cat", "-", "cats">>, <<"NOT">>}
\* what llm.invoke gives: a plan, or the text of its error
Plans == {"1. step", "[LLM error]"}

\* LotlOpsDaemon() of the request, then
\* task_id = add_task(title=instruction[:80], description=instruction);
\* the instructions here are shorter than 80 characters
PartnerAddTask(instruction) ==
  /\ pt_pc = "idle"
  /\ AddTask(instruction, instruction, 5)
  /\ pt_pc' = "added"
  /\ pt_instruction' = instruction
  /\ pt_task_id' = task_seq + 1
  /\ pt_recalls' = <<>>
  /\ pt_plan' = NoPlan
  /\ pt_logs' = <<>>
  /\ pt_result' = NotReturned

\* a search that takes the task back when the query is rejected
PartnerSearchRollsBack ==
  /\ pt_pc = "added"
  /\ \E res \in SearchResults(pt_instruction, 3) :
       /\ st_call' = [op |-> "search", query |-> pt_instruction, limit |-> 3,
                      result |-> res, prev |-> <<>>]
       /\ IF res.kind = "rows"
          THEN /\ pt_pc' = "searched"
               /\ pt_recalls' = res.rows
               /\ pt_result' = pt_result
               /\ tasks' = tasks
          ELSE /\ pt_pc' = "raised"
               /\ pt_recalls' = pt_recalls
               /\ pt_result' = [kind |-> res.kind]
               /\ tasks' = [i \in DOMAIN tasks \ {pt_task_id} |-> tasks[i]]
  /\ UNCHANGED <<memory_fts, task_seq, st_clock, wlock, conn, returned>>
  /\ UNCHANGED <<pt_instruction, pt_task_id, pt_plan, pt_logs>>

\* recalls = search_memory(instruction, limit=3); the error of the FTS5
\* parser leaves partner through no handler
PartnerSearch ==
  /\ pt_pc = "added"
  /\ \E res \in SearchResults(pt_instruction, 3) :
       /\ st_call' = [op |-> "search", query |-> pt_instruction, limit |-> 3,
                      result |-> res, prev |-> <<>>]
       /\ IF res.kind = "rows"
          THEN /\ pt_pc' = "searched"
               /\ pt_recalls' = res.rows
               /\ pt_result' = pt_result
               /\ tasks' = tasks
          ELSE /\ pt_pc' = "raised"
               /\ pt_recalls' = pt_recalls
               /\ pt_result' = [kind |-> res.kind]
               /\ tasks' = tasks
  /\ UNCHANGED <<memory_fts, task_seq, st_clock, wlock, conn, returned>>
  /\ UNCHANGED <<pt_instruction, pt_task_id, pt_plan, pt_logs>>

\* plan = self.llm.invoke(...), which gives a text whatever happens
PartnerInvoke(plan) ==
  /\ pt_pc = "searched"
  /\ pt_pc' = "planned"
  /\ pt_plan' = plan
  /\ UNCHANGED store_vars
  /\ UNCHANGED <<pt_instruction, pt_task_id, pt_recalls, pt_logs, pt_result>>

\* self.memory.remember(f"[PARTNER][task:{task_id}]\n{plan}") and the return
PartnerReturn ==
  /\ pt_pc = "planned"
  /\ pt_pc' = "returned"
  /\ pt_logs' = Append(pt_logs, [task |-> pt_task_id, plan |-> pt_plan])
  /\ pt_result' = [kind |-> "dict", task_id |-> pt_task_id, plan |-> pt_plan,
                   context |-> pt_recalls]
  /\ UNCHANGED store_vars
  /\ UNCHANGED <<pt_instruction, pt_task_id, pt_recalls, pt_plan>>

\* the call is over; the next request is free to come
PartnerAgain ==
  /\ pt_pc \in {"returned", "raised"}
  /\ pt_pc' = "idle"
  /\ UNCHANGED store_vars
  /\ UNCHANGED <<pt_instruction, pt_task_id, pt_recalls, pt_plan, pt_logs, pt_result>>

\* the console path stores an output meanwhile
PartnerRemember(content) ==
  /\ Remember(content, NoMeta)
  /\ UNCHANGED partner_vars

\* ------------------------------------------------ AgentSwarmOrchestrator
\* self.agents of __init__
Registered == {"lotl_agent", "osint_agent", "security_agent"}

\* how SovereignAgent.execute_task ends: process_task gives a dict, or it
\* raises and the exception is raised again. SecurityAgent has no
\* process_task of its own (NotImplementedError); LOTLAgent and OSINTAgent
\* give a dict on one branch and call a method they do not have on another.
AgentOutcomes(agent_type) ==
  IF agent_type = "security_agent" THEN {"raise"} ELSE {"dict", "raise"}

\* execute_task up to the call of the agent
EtCall(o) ==
  /\ et_pc = "idle"
  /\ et_task' = o
  /\ IF AgentTypeOf(o) \notin Registered
     THEN /\ et_pc' = "returned"
          /\ et_out' = "error: No agent available"
          /\ UNCHANGED active_tasks
     ELSE /\ et_pc' = "running"
          /\ et_out' = "None"
          /\ active_tasks' = MapSet(active_tasks, TaskIdOf(o), o)
  /\ UNCHANGED <<completed_tasks, task_state>>

\* the agent is done: the try block goes on, or the except block runs
EtFinish(outcome) ==
  /\ et_pc = "running"
  /\ outcome \in AgentOutcomes(AgentTypeOf(et_task))
  /\ LET st == IF outcome = "dict"
               THEN [status |-> "completed", result |-> "dict"]
               ELSE [status |-> "failed", result |-> "error"]
     IN /\ task_state' = [task_state EXCEPT ![et_task] = st]
        /\ et_out' = st.result
  /\ completed_tasks' = MapSet(completed_tasks, TaskIdOf(et_task), et_task)
  /\ active_tasks' = [i \in DOMAIN active_tasks \ {TaskIdOf(et_task)} |-> active_tasks[i]]
  /\ et_pc' = "returned"
  /\ UNCHANGED et_task

\* the caller has the result and is free to hand in the next task
EtAgain ==
  /\ et_pc = "returned"
  /\ et_pc' = "idle"
  /\ UNCHANGED <<active_tasks, completed_tasks, task_state, et_task, et_out>>

\* ------------------------------------------------------ LLMFallbackAgent
Agents == {"weaviate-local", "llm-kungfu"}
TaskTypes == {"reasoning", "coding", "embedding", "vision"}
FbPrompts == {"Give me a Sun Tzu quote", "embed this", ""}

\* self.models.get(task_type, []) of the two __init__
ModelsFor(agent, task_type) ==
  IF agent = "weaviate-local"
  THEN IF task_type = "reasoning" THEN <<"Claude", "Gemini", "GroqLLama", "GPT4">>
       ELSE IF task_type = "coding"
       THEN <<"DeepSeekCoder", "Codestral", "Phi3", "ContinueDev">>
       ELSE IF task_type = "embedding" THEN <<"CohereEmbed", "NomicEmbed">>
       ELSE <<>>
  ELSE IF task_type = "reasoning" THEN <<"GroqLLama", "Gemini">> ELSE <<>>

\* wrappers whose invoke is "raise NotImplementedError"
Untamed(agent) == IF agent = "weaviate-local" THEN {"Gemini", "ContinueDev"} ELSE {}

\* what model.invoke(prompt) returns when it returns
Answer(model, prompt) == [kind |-> "answer", model |-> model, prompt |-> prompt]

FallbackInit ==
  /\ fb_agent \in Agents
  /\ fb_pc = "idle"
  /\ fb_task_type = ""
  /\ fb_prompt = ""
  /\ fb_invoked = <<>>
  /\ fb_raised = <<>>
  /\ fb_result = NoAnswer

\* call(task_type, prompt) up to the first pass of the loop
FbCall(task_type, prompt) ==
  /\ fb_pc = "idle"
  /\ fb_task_type' = task_type
  /\ fb_prompt' = prompt
  /\ fb_invoked' = <<>>
  /\ fb_raised' = <<>>
  /\ IF ModelsFor(fb_agent, task_type) = <<>>
     THEN fb_pc' = "raised" /\ fb_result' = [kind |-> "RuntimeError"]
     ELSE fb_pc' = "trying" /\ fb_result' = NoAnswer
  /\ UNCHANGED fb_agent

\* model.invoke(prompt) returns: call returns what it gave
FbInvokeReturns ==
  /\ fb_pc = "trying"
  /\ LET model == ModelsFor(fb_agent, fb_task_type)[Len(fb_invoked) + 1] IN
     /\ model \notin Untamed(fb_agent)
     /\ fb_invoked' = Append(fb_invoked, model)
     /\ fb_result' = Answer(model, fb_prompt)
  /\ fb_raised' = Append(fb_raised, FALSE)
  /\ fb_pc' = "returned"
  /\ UNCHANGED <<fb_agent, fb_task_type, fb_prompt>>

\* a call that gives up at the first model that raises
FbInvokeRaisesGivesUp ==
  /\ fb_pc = "trying"
  /\ LET models == ModelsFor(fb_agent, fb_task_type) IN
     /\ fb_invoked' = Append(fb_invoked, models[Len(fb_invoked) + 1])
     /\ fb_pc' = "raised" /\ fb_result' = [kind |-> "RuntimeError"]
  /\ fb_raised' = Append(fb_raised, TRUE)
  /\ UNCHANGED <<fb_agent, fb_task_type, fb_prompt>>

\* model.invoke(prompt) raises: the loop goes to the next model, and past
\* the last one to "raise RuntimeError"
FbInvokeRaises ==
  /\ fb_pc = "trying"
  /\ LET models == ModelsFor(fb_agent, fb_task_type) IN
     /\ fb_invoked' = Append(fb_invoked, models[Len(fb_invoked) + 1])
     /\ IF Len(fb_invoked) + 1 = Len(models)
        THEN fb_pc' = "raised" /\ fb_result' = [kind |-> "RuntimeError"]
        ELSE fb_pc' = "trying" /\ fb_result' = fb_result
  /\ fb_raised' = Append(fb_raised, TRUE)
  /\ UNCHANGED <<fb_agent, fb_task_type, fb_prompt>>

\* the caller has the response or the error; the next call is free to come
FbAgain ==
  /\ fb_pc \in {"returned", "raised"}
  /\ fb_pc' = "idle"
  /\ UNCHANGED <<fb_agent, fb_task_type, fb_prompt, fb_invoked, fb_raised, fb_result>>

vars == <<exec_vars, now, auth_vars, gate_vars, burst, more_vars>>

ExecIdle ==
  /\ allowed_commands = {<<"l">>}
  /\ timeout_seconds = 1
  /\ ex_pc = "idle"
  /\ ex_command = <<>>
  /\ ex_result = NoResult
  /\ child = "none"
  /\ spawned = 0
  /\ ex_elapsed = 0
  /\ child_exit = NoExit

AuthIdle ==
  /\ now = StartTick
  /\ au_timestamp = NoHeader
  /\ au_signature = OtherSig("none")
  /\ au_body = "body1"
  /\ au_pc = "off"
  /\ au_at = 0
  /\ au_result = "none"
  /\ au_presented = 0

InitExec == ExecInit /\ AuthIdle /\ GateIdle /\ BurstIdle /\ MoreIdle
NextExec ==
  \/ /\ \E command \in Cmds : RunDenied(command)
     /\ UNCHANGED <<now, auth_vars, gate_vars, burst, more_vars>>
  \/ /\ \E command \in Cmds : RunSpawn(command)
     /\ UNCHANGED <<now, auth_vars, gate_vars, burst, more_vars>>
  \/ /\ \E command \in Cmds : RunSpawnFails(command)
     /\ UNCHANGED <<now, auth_vars, gate_vars, burst, more_vars>>
  \/ /\ ChildRuns
     /\ UNCHANGED <<now, auth_vars, gate_vars, burst, more_vars>>
  \/ /\ \E code \in ExitCodes, out \in {"", "out\n"}, err \in {"", "err\n"} :
           ChildExits(code, out, err)
     /\ UNCHANGED <<now, auth_vars, gate_vars, burst, more_vars>>
  \/ /\ RunTimeout
     /\ UNCHANGED <<now, auth_vars, gate_vars, burst, more_vars>>
  \/ /\ RunAgain
     /\ UNCHANGED <<now, auth_vars, gate_vars, burst, more_vars>>
SpecExec == InitExec /\ [][NextExec]_vars

InitAuth == AuthInit /\ ExecIdle /\ GateIdle /\ BurstIdle /\ MoreIdle
NextAuth ==
  \/ /\ Verify
     /\ UNCHANGED <<exec_vars, gate_vars, burst, more_vars>>
  \/ /\ \E body \in Bodies : TamperBody(body)
     /\ UNCHANGED <<exec_vars, gate_vars, burst, more_vars>>
  \/ /\ Replay
     /\ UNCHANGED <<exec_vars, gate_vars, burst, more_vars>>
  \/ /\ Tick
     /\ UNCHANGED <<exec_vars, auth_vars, gate_vars, burst, more_vars>>
  \/ /\ ClockJump
     /\ UNCHANGED <<exec_vars, auth_vars, gate_vars, burst, more_vars>>
SpecAuth == InitAuth /\ [][NextAuth]_vars

Init == GateInit /\ ExecIdle /\ AuthIdle /\ BurstIdle /\ MoreIdle
Next ==
  \/ /\ \E r \in Slots, ip \in Clients : Receive(r, ip)
     /\ UNCHANGED <<exec_vars, auth_vars, burst, more_vars>>
  \/ /\ \E r \in Slots : RateLimitOff(r)
     /\ UNCHANGED <<exec_vars, auth_vars, burst, more_vars>>
  \/ /\ \E r \in Slots : RateLimitLocal(r)
     /\ UNCHANGED <<exec_vars, auth_vars, burst, more_vars>>
  \/ /\ \E r \in Slots : RedisRead(r)
     /\ UNCHANGED <<exec_vars, auth_vars, burst, more_vars>>
  \/ /\ \E r \in Slots : RedisWrite(r)
     /\ UNCHANGED <<exec_vars, auth_vars, burst, more_vars>>
  \/ /\ \E r \in Slots : RedisError(r)
     /\ UNCHANGED <<exec_vars, auth_vars, burst, more_vars>>
  \/ /\ \E r \in Slots, endpoint \in Endpoints, env \in Envelopes(now),
           command \in GateCmds : Handle(r, endpoint, env, command)
     /\ UNCHANGED <<exec_vars, auth_vars, burst, more_vars>>
  \/ /\ \E r \in Slots : StreamRun(r)
     /\ UNCHANGED <<exec_vars, auth_vars, burst, more_vars>>
  \/ /\ \E r \in Slots : Respond(r)
     /\ UNCHANGED <<exec_vars, auth_vars, burst, more_vars>>
  \/ /\ Tick
     /\ UNCHANGED <<gate_vars, exec_vars, auth_vars, burst, more_vars>>
Spec == Init /\ [][Next]_vars

InitBurst == BurstInit /\ ExecIdle /\ AuthIdle /\ MoreIdle
NextBurst ==
  \/ /\ \E ip \in Clients : BurstAdmit(ip)
     /\ UNCHANGED <<exec_vars, auth_vars, more_vars>>
  \/ /\ BurstTick
     /\ UNCHANGED <<exec_vars, auth_vars, more_vars>>
  \/ /\ BurstClockBack
     /\ UNCHANGED <<exec_vars, auth_vars, more_vars>>
SpecBurst == InitBurst /\ [][NextBurst]_vars

InitSwarm == ExecInit /\ SwarmIdle /\ AuthIdle /\ GateIdle /\ BurstIdle /\ LimIdle /\ LlmIdle /\ StoreIdle /\ ExtIdle
NextSwarm ==
  \/ /\ \E command \in Cmds : LotlNoSpawn(command)
     /\ UNCHANGED <<exec_vars, now, auth_vars, gate_vars, burst, dec, llm_vars, store_vars, ext_vars>>
  \/ /\ \E command \in Cmds : LotlSpawn(command)
     /\ UNCHANGED <<exec_vars, now, auth_vars, gate_vars, burst, dec, llm_vars, store_vars, ext_vars>>
  \/ /\ \E command \in Cmds : LotlSpawnFails(command)
     /\ UNCHANGED <<exec_vars, now, auth_vars, gate_vars, burst, dec, llm_vars, store_vars, ext_vars>>
  \/ /\ \E code \in ExitCodes, out \in {"", "out\n"}, err \in {"", "err\n"} :
           LotlChildExits(code, out, err)
     /\ UNCHANGED <<exec_vars, now, auth_vars, gate_vars, burst, dec, llm_vars, store_vars, ext_vars>>
  \/ /\ LotlTimeout
     /\ UNCHANGED <<exec_vars, now, auth_vars, gate_vars, burst, dec, llm_vars, store_vars, ext_vars>>
  \/ /\ LotlAgain
     /\ UNCHANGED <<exec_vars, now, auth_vars, gate_vars, burst, dec, llm_vars, store_vars, ext_vars>>
SpecSwarm == InitSwarm /\ [][NextSwarm]_vars

InitLimiter == LimInit /\ ExecIdle /\ AuthIdle /\ BurstIdle /\ SwarmIdle /\ LlmIdle /\ StoreIdle /\ ExtIdle
NextLimiter ==
  \/ /\ \E ip \in Clients : BothAdmit(ip)
     /\ UNCHANGED <<exec_vars, auth_vars, burst, swarm_vars, llm_vars, store_vars, ext_vars>>
  \/ /\ \E ip \in Clients : RedisExpire(ip)
     /\ UNCHANGED <<exec_vars, auth_vars, burst, swarm_vars, llm_vars, store_vars, ext_vars>>
  \/ /\ Tick
     /\ UNCHANGED <<exec_vars, auth_vars, gate_vars, burst, more_vars>>
  \/ /\ ClockJump
     /\ UNCHANGED <<exec_vars, auth_vars, gate_vars, burst, more_vars>>
SpecLimiter == InitLimiter /\ [][NextLimiter]_vars

InitLlm == LlmInit /\ ExecIdle /\ AuthIdle /\ GateIdle /\ BurstIdle /\ LimIdle /\ SwarmIdle /\ StoreIdle /\ ExtIdle
NextLlm ==
  \/ /\ \E prompt \in Prompts, reply \in HttpReplies : InvokeHttp(prompt, reply)
     /\ UNCHANGED <<exec_vars, now, auth_vars, gate_vars, burst, dec, swarm_vars, store_vars, ext_vars>>
  \/ /\ \E run \in CliRuns : InvokeCli(run)
     /\ UNCHANGED <<exec_vars, now, auth_vars, gate_vars, burst, dec, swarm_vars, store_vars, ext_vars>>
  \/ /\ InvokeReturn
     /\ UNCHANGED <<exec_vars, now, auth_vars, gate_vars, burst, dec, swarm_vars, store_vars, ext_vars>>
  \/ /\ InvokeAgain
     /\ UNCHANGED <<exec_vars, now, auth_vars, gate_vars, burst, dec, swarm_vars, store_vars, ext_vars>>
SpecLlm == InitLlm /\ [][NextLlm]_vars

InitMemory == StoreIdle /\ ExecIdle /\ AuthIdle /\ GateIdle /\ BurstIdle /\ LimIdle /\ SwarmIdle /\ LlmIdle /\ ExtIdle
NextMemory ==
  \/ /\ \E content \in Texts, metadata \in Metadatas : Remember(content, metadata)
     /\ UNCHANGED <<exec_vars, now, auth_vars, gate_vars, burst, dec, swarm_vars, llm_vars, ext_vars>>
  \/ /\ \E query \in Texts, limit \in Limits : Search(query, limit)
     /\ UNCHANGED <<exec_vars, now, auth_vars, gate_vars, burst, dec, swarm_vars, llm_vars, ext_vars>>
SpecMemory == InitMemory /\ [][NextMemory]_vars

InitTasks == StoreIdle /\ ExecIdle /\ AuthIdle /\ GateIdle /\ BurstIdle /\ LimIdle /\ SwarmIdle /\ LlmIdle /\ ExtIdle
NextTasks ==
  \/ /\ \E title \in Titles, priority \in Priorities : AddTask(title, "d", priority)
     /\ UNCHANGED <<exec_vars, now, auth_vars, gate_vars, burst, dec, swarm_vars, llm_vars, ext_vars>>
  \/ /\ \E status \in {NoFilter} \cup StatusArgs : ListTasks(status)
     /\ UNCHANGED <<exec_vars, now, auth_vars, gate_vars, burst, dec, swarm_vars, llm_vars, ext_vars>>
  \/ /\ \E task_id \in 1..(MaxTasks + 1), status \in StatusArgs :
           UpdateTaskStatus(task_id, status)
     /\ UNCHANGED <<exec_vars, now, auth_vars, gate_vars, burst, dec, swarm_vars, llm_vars, ext_vars>>
SpecTasks == InitTasks /\ [][NextTasks]_vars

\* the five store operations called one after the other by one caller
StoreTexts == {<<"cat">>, <<"cats">>}
InitStore == StoreIdle /\ ExecIdle /\ AuthIdle /\ GateIdle /\ BurstIdle /\ LimIdle /\ SwarmIdle /\ LlmIdle /\ ExtIdle
NextStore ==
  \/ /\ \E content \in StoreTexts : Remember(content, NoMeta)
     /\ UNCHANGED <<exec_vars, now, auth_vars, gate_vars, burst, dec, swarm_vars, llm_vars, ext_vars>>
  \/ /\ \E query \in StoreTexts : Search(query, 5)
     /\ UNCHANGED <<exec_vars, now, auth_vars, gate_vars, burst, dec, swarm_vars, llm_vars, ext_vars>>
  \/ /\ AddTask("t1", "d", 5)
     /\ UNCHANGED <<exec_vars, now, auth_vars, gate_vars, burst, dec, swarm_vars, llm_vars, ext_vars>>
  \/ /\ ListTasks(NoFilter)
     /\ UNCHANGED <<exec_vars, now, auth_vars, gate_vars, burst, dec, swarm_vars, llm_vars, ext_vars>>
  \/ /\ \E task_id \in 1..MaxTasks : UpdateTaskStatus(task_id, "completed")
     /\ UNCHANGED <<exec_vars, now, auth_vars, gate_vars, burst, dec, swarm_vars, llm_vars, ext_vars>>
SpecStore == InitStore /\ [][NextStore]_vars

\* calls of partner one after the other, the console storing outputs
InitPartner ==
  /\ StoreIdle /\ PartnerIdle
  /\ ExecIdle /\ AuthIdle /\ GateIdle /\ BurstIdle /\ LimIdle /\ SwarmIdle /\ LlmIdle
  /\ PartnerOthersIdle
NextPartner ==
  \/ /\ \E instruction \in Instructions : PartnerAddTask(instruction)
     /\ UNCHANGED <<exec_vars, now, auth_vars, gate_vars, burst, dec, swarm_vars, llm_vars, partner_rest>>
  \/ /\ PartnerSearch
     /\ UNCHANGED <<exec_vars, now, auth_vars, gate_vars, burst, dec, swarm_vars, llm_vars, partner_rest>>
  \/ /\ \E plan \in Plans : PartnerInvoke(plan)
     /\ UNCHANGED <<exec_vars, now, auth_vars, gate_vars, burst, dec, swarm_vars, llm_vars, partner_rest>>
  \/ /\ PartnerReturn
     /\ UNCHANGED <<exec_vars, now, auth_vars, gate_vars, burst, dec, swarm_vars, llm_vars, partner_rest>>
  \/ /\ PartnerAgain
     /\ UNCHANGED <<exec_vars, now, auth_vars, gate_vars, burst, dec, swarm_vars, llm_vars, partner_rest>>
  \/ /\ \E content \in StoreTexts : PartnerRemember(content)
     /\ UNCHANGED <<exec_vars, now, auth_vars, gate_vars, burst, dec, swarm_vars, llm_vars, partner_rest>>
SpecPartner == InitPartner /\ [][NextPartner]_vars

\* tasks handed to the orchestrator one after the other, as
\* process_natural_language_request does
InitOrch ==
  /\ OrchIdle
  /\ ExecIdle /\ AuthIdle /\ GateIdle /\ BurstIdle /\ LimIdle /\ SwarmIdle /\ LlmIdle /\ StoreIdle
  /\ OrchOthersIdle
NextOrch ==
  \/ /\ \E o \in TaskObjs : EtCall(o)
     /\ UNCHANGED but_orch
  \/ /\ \E outcome \in {"dict", "raise"} : EtFinish(outcome)
     /\ UNCHANGED but_orch
  \/ /\ EtAgain
     /\ UNCHANGED but_orch
SpecOrch == InitOrch /\ [][NextOrch]_vars

\* calls of the fallback agent one after the other
InitFallback ==
  /\ FallbackInit
  /\ ExecIdle /\ AuthIdle /\ GateIdle /\ BurstIdle /\ LimIdle /\ SwarmIdle /\ LlmIdle /\ StoreIdle
  /\ FallbackOthersIdle
NextFallback ==
  \/ /\ \E task_type \in TaskTypes, prompt \in FbPrompts : FbCall(task_type, prompt)
     /\ UNCHANGED but_fallback
  \/ /\ FbInvokeReturns
     /\ UNCHANGED but_fallback
  \/ /\ FbInvokeRaises
     /\ UNCHANGED but_fallback
  \/ /\ FbAgain
     /\ UNCHANGED but_fallback
SpecFallback == InitFallback /\ [][NextFallback]_vars

\* callers of the store running at the same time, each on its own connection
InitConc == StoreIdle /\ ExecIdle /\ AuthIdle /\ GateIdle /\ BurstIdle /\ LimIdle /\ SwarmIdle /\ LlmIdle /\ ExtIdle
NextConc ==
  \/ /\ \E p \in Procs, title \in Titles : BeginAddTask(p, title)
     /\ UNCHANGED <<exec_vars, now, auth_vars, gate_vars, burst, dec, swarm_vars, llm_vars, ext_vars>>
  \/ /\ \E p \in Procs, content \in ConcTexts : BeginRemember(p, content)
     /\ UNCHANGED <<exec_vars, now, auth_vars, gate_vars, burst, dec, swarm_vars, llm_vars, ext_vars>>
  \/ /\ \E p \in Procs : BeginSearch(p, <<"cat">>)
     /\ UNCHANGED <<exec_vars, now, auth_vars, gate_vars, burst, dec, swarm_vars, llm_vars, ext_vars>>
  \/ /\ \E p \in Procs : InsertTask(p)
     /\ UNCHANGED <<exec_vars, now, auth_vars, gate_vars, burst, dec, swarm_vars, llm_vars, ext_vars>>
  \/ /\ \E p \in Procs : InsertMemory(p)
     /\ UNCHANGED <<exec_vars, now, auth_vars, gate_vars, burst, dec, swarm_vars, llm_vars, ext_vars>>
  \/ /\ \E p \in Procs : InsertMemoryDone(p)
     /\ UNCHANGED <<exec_vars, now, auth_vars, gate_vars, burst, dec, swarm_vars, llm_vars, ext_vars>>
  \/ /\ \E p \in Procs : Commit(p)
     /\ UNCHANGED <<exec_vars, now, auth_vars, gate_vars, burst, dec, swarm_vars, llm_vars, ext_vars>>
  \/ /\ \E p \in Procs : Busy(p)
     /\ UNCHANGED <<exec_vars, now, auth_vars, gate_vars, burst, dec, swarm_vars, llm_vars, ext_vars>>
  \/ /\ \E p \in Procs : SearchRead(p)
     /\ UNCHANGED <<exec_vars, now, auth_vars, gate_vars, burst, dec, swarm_vars, llm_vars, ext_vars>>
  \/ /\ \E p \in Procs : Return(p)
     /\ UNCHANGED <<exec_vars, now, auth_vars, gate_vars, burst, dec, swarm_vars, llm_vars, ext_vars>>
SpecConc == InitConc /\ [][NextConc]_vars

\* one request to /stream after the other; the event loop keeps running the
\* response and its generator as long as one of them can take a step
InitStream == StreamIdle /\ StoreIdle /\ ExecIdle /\ AuthIdle /\ GateIdle /\ BurstIdle /\ LimIdle /\ SwarmIdle /\ LlmIdle /\ StreamOthersIdle
NextStream ==
  \/ /\ \E body \in UpstreamBodies : StreamStart(body)
     /\ UNCHANGED but_stream
  \/ /\ GenConnect
     /\ UNCHANGED but_stream
  \/ /\ GenConnectFails
     /\ UNCHANGED but_stream
  \/ /\ GenReadLine
     /\ UNCHANGED but_stream
  \/ /\ GenEof
     /\ UNCHANGED but_stream
  \/ /\ GenReadTimeout
     /\ UNCHANGED but_stream
  \/ /\ GenSend
     /\ UNCHANGED but_stream
  \/ /\ Disconnect
     /\ UNCHANGED but_stream
  \/ /\ GenCancelled
     /\ UNCHANGED but_stream
  \/ /\ GenClosed
     /\ UNCHANGED but_stream
  \/ /\ StreamAgain
     /\ UNCHANGED but_stream
SpecStream == InitStream /\ [][NextStream]_vars /\ WF_vars(GenStep)

\* an executor constructed with arguments, then used
InitCtor == CtorInit /\ AuthIdle /\ GateIdle /\ BurstIdle /\ LimIdle /\ SwarmIdle /\ LlmIdle /\ StoreIdle /\ CtorOthersIdle
SpecCtor == InitCtor /\ [][NextExec]_vars

\* clients that keep asking while time goes on
InitFrac == FracInit /\ ExecIdle /\ AuthIdle /\ GateIdle /\ BurstIdle /\ LimIdle /\ SwarmIdle /\ LlmIdle /\ StoreIdle /\ FracOthersIdle
NextFrac ==
  \/ /\ \E ip \in Clients : FracAdmit(ip)
     /\ UNCHANGED but_frac
  \/ /\ FracTick
     /\ UNCHANGED but_frac
SpecFrac ==
  /\ InitFrac /\ [][NextFrac]_vars
  /\ WF_vars(FracTick /\ UNCHANGED but_frac)
  /\ \A ip \in Clients : WF_vars(FracAdmit(ip) /\ UNCHANGED but_frac)

\* ------------------------------------------------------------ properties

\* C1: whenever run has handled a command line whose tokenization fails, whose
\* argument vector is empty, or whose argv[0] base name is not an exact member
\* of the allowlist, the result is Denied and no child process was spawned;
\* a child process exists only when none of the three conditions holds.
C1_DeniedNoSpawn ==
  ex_pc # "idle" =>
    LET sp == ShlexSplit(ex_command)
        bad == \/ ~sp.ok
               \/ sp.parts = <<>>
               \/ Basename(sp.parts[1]) \notin allowed_commands
    IN /\ bad => (ex_result = DeniedResult /\ spawned = 0 /\ child = "none")
       /\ (spawned > 0 \/ child # "none") => ~bad

\* a well-tokenized command whose base name differs from an allowlisted name
\* only by case has been denied without a child
C1_Witness ==
  /\ ex_pc = "returned"
  /\ ex_command = <<"/", "L">>
  /\ <<"l">> \in allowed_commands
  /\ ex_result = DeniedResult
  /\ spawned = 0

\* C10: when run returns for a spawned command that was still running when the
\* timeout expired, the result is TimedOut and the child has been killed and
\* reaped; a TimedOut result never leaves a running child behind.
C10_TimeoutKills ==
  /\ (ex_pc = "returned" /\ spawned = 1 /\ ex_elapsed >= timeout_seconds)
        => (ex_result = TimedOutResult /\ child = "killed")
  /\ (ex_pc = "returned" /\ ex_result = TimedOutResult) => child = "killed"

\* run has returned TimedOut for an allowlisted command that ran out of time
C10_Witness ==
  /\ ex_pc = "returned"
  /\ IsAllowed(ex_command)
  /\ spawned = 1
  /\ ex_elapsed = timeout_seconds
  /\ ex_result = TimedOutResult
  /\ child = "killed"

C8_TamperedBody ==
  au_pc = "checked" =>
    /\ (/\ au_timestamp.fmt \in {"plain", "padded"}
        /\ Abs(IntTime(au_at) - au_timestamp.val) <= MaxSkew
        /\ au_signature.kind = "mac"
        /\ au_signature.ts = au_timestamp
        /\ au_signature.body # au_body)
       => au_result = "bad signature"
    /\ au_result = "ok"
       => au_signature = Hmac(AGENT_SHARED_SECRET, au_timestamp, au_body)

\* an envelope signed under the shared secret, its body replaced on the way,
\* has been rejected with "bad signature"
C8_Witness ==
  /\ au_pc = "checked"
  /\ au_signature.kind = "mac"
  /\ au_signature.key = AGENT_SHARED_SECRET
  /\ au_signature.ts = au_timestamp
  /\ au_signature.body # au_body
  /\ au_result = "bad signature"

\* C9: a checked envelope is "missing" whenever the timestamp or the signature
\* is absent, "invalid timestamp" whenever both are present and the timestamp
\* is not an integer, and the outcome is always Ok or one of the four
\* Unauthorized details.
C9_FourOutcomes ==
  au_pc = "checked" =>
    /\ (~Truthy(au_timestamp) \/ ~TruthySig(au_signature))
         => au_result = "missing auth headers"
    /\ (Truthy(au_timestamp) /\ TruthySig(au_signature) /\ au_timestamp.fmt = "junk")
         => au_result = "invalid timestamp"
    /\ au_result \in {"ok", "missing auth headers", "invalid timestamp",
                      "stale request", "bad signature"}

\* C2: a request answered 401 or 429 has made no side-effecting call (no
\* command run, no completion asked, no task or memory entry written) and has
\* never been dispatched, on every privileged endpoint.
C2_RejectedNoEffects ==
  \A r \in Slots :
    req[r].status \in {401, 429} =>
      /\ req[r].effects = {}
      /\ \A i \in 1..Len(req[r].stages) : req[r].stages[i] # "Dispatched"

\* one request has been answered 401 and another 429, neither with an effect
C2_Witness ==
  /\ req[1].pc = "done" /\ req[1].status = 401 /\ req[1].effects = {}
  /\ req[2].pc = "done" /\ req[2].status = 429 /\ req[2].effects = {}

\* C3: admission is evaluated only after the signature has been accepted, so
\* a request answered 401 has passed no Admitted stage and has not stored a
\* decremented bucket for any client.
C3_AuthBeforeAdmit ==
  \A r \in Slots :
    req[r].status = 401 =>
      /\ ~req[r].took
      /\ (RATE_LIMIT_RPS > 0 => \A i \in 1..Len(req[r].stages) : req[r].stages[i] # "Admitted")

\* C4: no admit returns Allowed while the stored bucket of its client holds
\* less than one token, whichever backend is configured and however
\* concurrent admits interleave.
C4_AtomicAdmit ==
  \A r \in Slots : ~req[r].overdrawn

\* C5: with a rate R > 0, of n admissions of one client at one instant that
\* began on an unseen or full bucket, min(n, R) are Allowed and the others
\* Denied: a burst of R + k gives exactly R Allowed and k Denied.
C5_BurstExact ==
  \A c \in Clients :
    (RATE_LIMIT_RPS > 0 /\ burst[c].full) =>
      LET n == burst[c].allowed + burst[c].denied IN
      /\ burst[c].allowed = Min(n, RATE_LIMIT_RPS)
      /\ burst[c].denied = n - Min(n, RATE_LIMIT_RPS)

\* a burst of R + 2 requests of one client has been decided
C5_Witness ==
  /\ RATE_LIMIT_RPS = 2
  /\ burst["ip1"] = [full |-> TRUE, allowed |-> 2, denied |-> 2]

\* C6: every stored bucket, in the in-process map and in the shared store,
\* holds at least 0 tokens and at most the capacity.
C6_TokensBounded ==
  /\ \A c \in DOMAIN last_seen : 0 <= last_seen[c].tok /\ last_seen[c].tok <= Capacity
  /\ \A c \in DOMAIN redis : 0 <= redis[c].tok /\ redis[c].tok <= Capacity

\* a bucket that was refilled up to the cap after idle time and an empty one
\* are stored
C6_Witness ==
  /\ DOMAIN last_seen = Clients
  /\ last_seen["ip1"].ts > StartTick
  /\ last_seen["ip1"].tok = Capacity - OneToken
  /\ last_seen["ip2"].tok = 0
  /\ RATE_LIMIT_RPS = 2

\* the pieces the text returned by run is put together from
ResultParts(result) ==
  IF result.kind = "Failed" THEN {"Error: ", result.text} ELSE {result.text}

\* the exit code written out as text
CodeText(code) == IF code = 0 THEN "0" ELSE IF code = 1 THEN "1" ELSE "2"

\* C11: when run has returned for an allowlisted command whose child ended
\* with a nonzero exit code, it has not raised and the returned text carries
\* the captured stdout, the captured stderr and the exit code.
C11_FailedCarriesAll ==
  (ex_pc \in {"returned", "raised"} /\ child = "exited" /\ child_exit.code # 0)
  => /\ ex_pc = "returned"
     /\ child_exit.out \in ResultParts(ex_result)
     /\ child_exit.err \in ResultParts(ex_result)
     /\ CodeText(child_exit.code) \in ResultParts(ex_result)

\* C12: run is total: it never raises, and what it returns is an output, a
\* Denied, a TimedOut or a Failed, also when the allowlisted executable is
\* missing on the host or cannot be started.
C12_RunTotal ==
  /\ ex_pc # "raised"
  /\ ex_pc = "returned" => ex_result.kind \in {"Output", "Denied", "TimedOut", "Failed"}

\* C13: no command-execution path spawns a process for a command whose base
\* name is outside the allowlist: neither ShellExecutor.run nor the swarm's
\* LOTLAgent.execute_shell_command has a child for a command that the
\* allowlist does not admit.
C13_NoSpawnOutsideAllowlist ==
  /\ (spawned > 0 \/ child # "none") => IsAllowed(ex_command)
  /\ (sw_spawned > 0 \/ sw_child # "none") => IsAllowed(sw_command)

C16_IdleEvicted ==
  (dec.ip # "" /\ dec.at = now) =>
    \A c \in DOMAIN last_seen : now - last_seen[c].ts <= RedisTtl * TicksPerSec

\* C15: with a configured rate of 0 or less every request is admitted,
\* whoever the client is, and rate_limit neither reads nor writes a bucket:
\* no request is answered 429, both stores stay empty and no request holds a
\* value read from a bucket.
C15_DisabledAlwaysAllowed ==
  RATE_LIMIT_RPS <= 0 =>
    /\ last_seen = EmptyMap
    /\ redis = EmptyMap
    /\ \A r \in Slots :
         /\ req[r].status # 429
         /\ ~req[r].took
         /\ req[r].rl_now = 0 /\ req[r].rl_tokens = 0
         /\ req[r].pc \in {"idle", "received", "admitted", "streaming", "done"}
         /\ req[r].pc \in {"admitted", "streaming", "done"}
              => req[r].stages[2] = "Admitted"

\* with the limiter switched off, two requests of one client that arrived at
\* the same instant have both been admitted and completed
C15_Witness ==
  /\ RATE_LIMIT_RPS <= 0
  /\ \A r \in Slots :
       /\ req[r].pc = "done" /\ req[r].ip = "ip1" /\ req[r].status = 200
       /\ req[r].stages[2] = "Admitted"
  /\ now = StartTick
  /\ last_seen = EmptyMap

\* C17: every request that was dispatched to the Executor or to the Completer
\* and succeeded has appended an entry to the memory store before it is
\* Completed.
C17_SuccessAppendsMemory ==
  \A r \in Slots :
    (req[r].pc = "done" /\ req[r].status = 200
       /\ req[r].endpoint \in {"/shell", "/invoke"}
       /\ req[r].effects \cap {"spawn", "llm"} # {})
    => "upsert_memory" \in req[r].effects

\* C18: a completed /partner request has created one task, searched the
\* memory store, asked the completer for a plan and written the plan to the
\* durable memory store.
C18_PartnerPersistsPlan ==
  \A r \in Slots :
    (req[r].pc = "done" /\ req[r].status = 200 /\ req[r].endpoint = "/partner")
    => req[r].effects = {"add_task", "search_memory", "llm", "upsert_memory"}

\* C19: an authenticated and admitted /shell request is answered 200 with
\* the text of the executor, whatever the outcome of the command; it is
\* never answered with an HTTP error status.
C19_ShellAlwaysSuccessShaped ==
  \A r \in Slots :
    (req[r].pc = "done" /\ req[r].endpoint = "/shell") => req[r].status = 200

C21_WriteThenRead ==
  (st_call.op = "search" /\ st_call.prev = st_call.query /\ st_call.limit = 5)
  => /\ st_call.result.kind = "rows"
     /\ \E i \in DOMAIN st_call.result.rows :
          memory_fts[st_call.result.rows[i]].content = st_call.query

\* C22: a search that returns rows returns min(limit, number of matching
\* rows) of them, all matching the query, the more relevant before the less
\* relevant and, of two equally relevant rows, the one created later first.
C22_SearchOrdered ==
  (st_call.op = "search" /\ st_call.result.kind = "rows") =>
    LET r == st_call.result.rows
        q == st_call.query
    IN /\ Len(r) = Min(st_call.limit, Cardinality(Matching(q)))
       /\ \A i \in DOMAIN r : Matches(q, memory_fts[r[i]])
       /\ \A i, j \in DOMAIN r : i < j => RankLeq(q, r[i], r[j])
       /\ \A i, j \in DOMAIN r :
            (i < j /\ RankLeq(q, r[j], r[i]))
              => memory_fts[r[i]].created_at > memory_fts[r[j]].created_at

C25_ListOrdered ==
  st_call.op = "list_tasks" =>
    LET r == st_call.result IN
    /\ Range(r) = IF st_call.status = NoFilter THEN DOMAIN tasks
                  ELSE {i \in DOMAIN tasks : tasks[i].status = st_call.status}
    /\ \A i, j \in DOMAIN r : i # j => r[i] # r[j]
    /\ \A i, j \in DOMAIN r :
         i < j => \/ tasks[r[i]].priority < tasks[r[j]].priority
                  \/ /\ tasks[r[i]].priority = tasks[r[j]].priority
                     /\ r[i] < r[j]

\* a task of priority 5 was added first and one of priority 1 after it, and
\* the list without a filter has the later one first
C25_Witness ==
  /\ st_call.op = "list_tasks"
  /\ st_call.status = NoFilter
  /\ DOMAIN tasks = {1, 2}
  /\ tasks[1].priority = 5 /\ tasks[2].priority = 1
  /\ st_call.result = <<2, 1>>

\* C26: update_task_status with an id that no task has returns NotFound.
C26_UnknownIdNotFound ==
  (st_call.op = "update_task_status" /\ st_call.id \notin DOMAIN tasks)
  => st_call.result = "NotFound"

\* C27: update_task_status on an existing task succeeds whatever the old and
\* the new status are, sets the status and updated_at of that task and
\* leaves its other columns, every other task, the id counter and the
\* memory rows as they were.
C27_UpdateFrame ==
  [][(st_call'.op = "update_task_status" /\ st_call'.id \in DOMAIN tasks) =>
       /\ st_call'.result = "None"
       /\ DOMAIN tasks' = DOMAIN tasks
       /\ tasks' = [tasks EXCEPT ![st_call'.id] =
                      [@ EXCEPT !.status = st_call'.status, !.updated_at = st_clock']]
       /\ task_seq' = task_seq
       /\ memory_fts' = memory_fts]_vars

\* with two tasks stored, the last of MaxStamps writes has set the status of
\* the first task to queued again and left the second task untouched
C27_Witness ==
  /\ st_call = [op |-> "update_task_status", id |-> 1, status |-> "queued",
                result |-> "None"]
  /\ DOMAIN tasks = {1, 2}
  /\ tasks[1].status = "queued" /\ tasks[1].updated_at = st_clock
  /\ tasks[1].created_at = 1 /\ st_clock = MaxStamps
  /\ tasks[2].status = "queued" /\ tasks[2].updated_at = 0

\* C28: the status of every stored task is queued, in_progress, completed
\* or failed.
C28_StatusInDomain ==
  \A i \in DOMAIN tasks : tasks[i].status \in Statuses

\* C29: in every step of any sequence of remember, search, add_task,
\* list_tasks and update_task_status every stored memory row stays where it
\* is with the same content, metadata and created_at; remember adds exactly
\* one row and no other operation changes the rows.
C29_AppendOnly ==
  [][/\ \A i \in DOMAIN memory_fts :
          i \in DOMAIN memory_fts' /\ memory_fts'[i] = memory_fts[i]
     /\ IF st_call'.op = "remember"
        THEN /\ Len(memory_fts') = Len(memory_fts) + 1
             /\ memory_fts'[Len(memory_fts')].content = st_call'.content
        ELSE memory_fts' = memory_fts]_vars

\* the same text has been remembered twice, both rows are stored with their
\* own created_at, and a task has been added and completed since
C29_Witness ==
  /\ Len(memory_fts) = 2
  /\ memory_fts[1].content = <<"cat">> /\ memory_fts[2].content = <<"cat">>
  /\ memory_fts[1].created_at = 1 /\ memory_fts[2].created_at = 2
  /\ st_call.op = "update_task_status"
  /\ 1 \in DOMAIN tasks /\ tasks[1].status = "completed"

\* C24 (as stated): every id that add_task returns is greater than every id
\* an add_task call has returned before it, whatever the interleaving of the
\* concurrent callers.
C24_ReturnedIncreasing ==
  \A i, j \in DOMAIN returned :
    (i < j /\ returned[i].op = "add_task" /\ returned[i].kind = "ok"
           /\ returned[j].op = "add_task" /\ returned[j].kind = "ok")
    => returned[i].id < returned[j].id

\* C24 (amended): under concurrent callers every add_task call that returns
\* has inserted exactly one task with status queued and returns the id of
\* that task; the ids returned are pairwise distinct; every task inserted
\* gets an id greater than the id of every task inserted before it (the
\* order of insertion, which need not be the order in which the calls
\* return).
C24_IdsIncreaseOnInsert ==
  /\ [](LET AddOk == {i \in DOMAIN returned :
                        returned[i].op = "add_task" /\ returned[i].kind = "ok"}
        IN /\ \A i \in AddOk :
                /\ returned[i].id \in DOMAIN tasks
                /\ tasks[returned[i].id].created_at = returned[i].stamp
                /\ tasks[returned[i].id].title = returned[i].arg
                /\ tasks[returned[i].id].status = "queued"
           /\ \A i, j \in AddOk : i # j => returned[i].id # returned[j].id
           /\ Cardinality(DOMAIN tasks) =
                Cardinality(AddOk) + Cardinality({p \in Procs :
                   conn[p].op = "add_task" /\ conn[p].pc = "committed"})
           /\ DOMAIN tasks = 1..task_seq)
  /\ [][/\ Cardinality(DOMAIN tasks' \ DOMAIN tasks) <= 1
        /\ \A i \in DOMAIN tasks : i \in DOMAIN tasks' /\ tasks'[i] = tasks[i]
        /\ \A i \in DOMAIN tasks' \ DOMAIN tasks :
             /\ tasks'[i].status = "queued"
             /\ \A j \in DOMAIN tasks : j < i]_vars

\* two add_task calls ran at the same time: the one that inserted first
\* returned last, so the ids came back as 2, then 1
C24_Witness ==
  /\ Len(returned) = 2
  /\ returned[1].op = "add_task" /\ returned[1].kind = "ok" /\ returned[1].id = 2
  /\ returned[2].op = "add_task" /\ returned[2].kind = "ok" /\ returned[2].id = 1
  /\ returned[1].proc # returned[2].proc
  /\ DOMAIN tasks = {1, 2}
  /\ tasks[1].created_at = returned[2].stamp
  /\ tasks[2].created_at = returned[1].stamp

\* C30: under concurrent remember and search calls every remember that has
\* returned has its row, whole and unchanged, among the committed rows, and
\* there is exactly one committed row per remember that got past its commit
\* (none lost, none overwritten); every row a search has read is a whole
\* committed row, never a row of a write still in flight.
C30_CommittedAndWhole ==
  LET RemOk == {i \in DOMAIN returned :
                  returned[i].op = "remember" /\ returned[i].kind = "ok"}
  IN /\ \A i \in RemOk :
          \E k \in DOMAIN memory_fts :
            memory_fts[k] = [content |-> returned[i].arg, metadata |-> NoMeta,
                             created_at |-> returned[i].stamp]
     /\ Len(memory_fts) =
          Cardinality(RemOk) + Cardinality({p \in Procs :
             conn[p].op = "remember" /\ conn[p].pc = "committed"})
     /\ \A k \in DOMAIN memory_fts : memory_fts[k].created_at >= 1
     /\ \A p \in Procs :
          conn[p].pc = "read" => conn[p].rows \subseteq Range(memory_fts)
     /\ \A i \in DOMAIN returned :
          returned[i].op = "search" => returned[i].rows \subseteq Range(memory_fts)

\* a search has read while a remember of another caller was half written:
\* it got the one row committed before and nothing of the row in flight
C30_Witness ==
  \E p, q \in Procs :
    /\ conn[p].pc = "writing"
    /\ conn[q].pc = "read"
    /\ Len(memory_fts) = 1
    /\ conn[q].rows = {memory_fts[1]}
    /\ \E i \in DOMAIN returned :
         returned[i].op = "remember" /\ returned[i].kind = "ok"

\* C31: once the client of /stream is gone the streamed request to the
\* completion service does not stay open: it is closed (or was never
\* opened) a finite time later, and whenever gen has ended, by cancellation
\* or otherwise, no upstream request is open.
C31_DisconnectReleases ==
  /\ [](sr_pc = "closed" => sr_upstream # "open")
  /\ ((sr_client = "gone") ~> (sr_upstream # "open"))

\* the client left after the first chunk with more lines to come; gen was
\* ended for it and the upstream request is closed
C31_Witness ==
  /\ sr_client = "gone"
  /\ sr_sent = 1
  /\ sr_lines # <<>>
  /\ sr_pc = "closed"
  /\ sr_how = "cancelled"
  /\ sr_upstream = "closed"

\* C32: an executor constructed with an explicit allowed_commands list L,
\* empty or not, denies a command exactly when its tokenization fails, its
\* argument vector is empty or its base name is not one of the names in L;
\* an executor constructed with an explicit timeout_seconds, 0 or not, times
\* a child out when it has run for exactly that many seconds.
C32_ExplicitArgsEnforced ==
  /\ (arg_allowed.given /\ ex_pc # "idle") =>
       LET sp == ShlexSplit(ex_command)
           L == {arg_allowed.val[i] : i \in DOMAIN arg_allowed.val}
       IN (ex_result = DeniedResult) <=>
            (~sp.ok \/ sp.parts = <<>> \/ Basename(sp.parts[1]) \notin L)
  /\ (arg_timeout.given /\ ex_result = TimedOutResult) => ex_elapsed = arg_timeout.val

\* C33: however often an envelope has been presented before, a check of it
\* answers ok exactly when its timestamp is numeric, its signature is the
\* digest of timestamp and body under the shared secret, and the clock of
\* that check is within the window: the outcome is a function of (timestamp,
\* signature, body, time, secret) alone, so a validly signed envelope is
\* accepted at every presentation within the window.
C33_AcceptedEveryTime ==
  au_pc = "checked" =>
    ((au_result = "ok") <=>
       /\ au_timestamp \in NumericTs
       /\ au_signature = Hmac(AGENT_SHARED_SECRET, au_timestamp, au_body)
       /\ Abs(IntTime(au_at) - au_timestamp.val) <= MaxSkew)

\* a validly signed envelope has been accepted for the third time, at a
\* later instant than it was first presented
C33_Witness ==
  /\ au_pc = "checked"
  /\ au_presented = 3
  /\ au_result = "ok"
  /\ au_at > StartTick

\* C34: a step that changes the in-process map or the shared store is an
\* admit answered Allowed by that backend (or, in the shared store, the
\* expiry of a bucket), and it changes the bucket of the calling client
\* only; hence a Denied admit leaves tokens and timestamp of every bucket,
\* the caller's included, as they were.
C34_DeniedWritesNothing ==
  [][/\ last_seen' # last_seen =>
          /\ dec'.local /\ dec'.at = now
          /\ DOMAIN last_seen' = DOMAIN last_seen \cup {dec'.ip}
          /\ \A c \in DOMAIN last_seen \ {dec'.ip} : last_seen'[c] = last_seen[c]
     /\ redis' # redis =>
          \/ /\ dec'.shared /\ dec'.at = now
             /\ DOMAIN redis' = DOMAIN redis \cup {dec'.ip}
             /\ \A c \in DOMAIN redis \ {dec'.ip} : redis'[c] = redis[c]
          \/ /\ dec' = dec
             /\ DOMAIN redis' \subseteq DOMAIN redis
             /\ \A c \in DOMAIN redis' : redis'[c] = redis[c]
     /\ (dec' # dec /\ ~dec'.local) => last_seen' = last_seen
     /\ (dec' # dec /\ ~dec'.shared) => redis' = redis]_vars

\* a client that had spent its tokens came back half a second later and was
\* answered Denied by both backends: its buckets still carry the time of
\* the earlier admit; the other client has buckets of its own
C34_Witness ==
  /\ dec.at = now /\ ~dec.local /\ ~dec.shared
  /\ dec.ip \in DOMAIN last_seen /\ dec.ip \in DOMAIN redis
  /\ last_seen[dec.ip].ts < now /\ redis[dec.ip].ts < now
  /\ last_seen[dec.ip].tok = 0
  /\ \E c \in DOMAIN last_seen \cap DOMAIN redis : c # dec.ip

\* C35: for every rate above 0, fractional ones included, a client whose
\* admit was answered Denied and who keeps asking while time goes on is
\* answered Allowed at some later admit.
C35_NotDeniedForever ==
  \A c \in Clients : (fr_last[c] = "denied") ~> (fr_last[c] = "allowed")

\* C36: with the shared store configured, an admission check in which a call
\* to the store fails lets the request pass: the request goes on as
\* admitted, it is not answered 429, and neither the in-process map nor the
\* shared store is changed by it; the in-process map is never written while
\* the shared store is the backend.
C36_FailOpen ==
  /\ []((redis_client /\ RATE_LIMIT_RPS > 0) => last_seen = EmptyMap)
  /\ [][\A r \in Slots :
          (/\ redis_client /\ RATE_LIMIT_RPS > 0
           /\ req[r].pc \in {"received", "rl_write"}
           /\ req'[r].pc # req[r].pc
           /\ ~(req[r].pc = "received" /\ req'[r].pc \in {"rl_write", "done"})
           /\ ~req'[r].took)
          => /\ req'[r].pc = "admitted"
             /\ req'[r].status = 0
             /\ req'[r].stages = Append(req[r].stages, "Admitted")
             /\ last_seen' = last_seen
             /\ redis' = redis]_vars

\* the write to the shared store has failed after its read had found a
\* token: the request is admitted, nothing was stored anywhere
C36_Witness ==
  \E r \in Slots :
    /\ redis_client /\ RATE_LIMIT_RPS > 0
    /\ req[r].pc = "admitted" /\ ~req[r].took
    /\ req[r].stages = <<"Received", "Admitted">>
    /\ redis = EmptyMap /\ last_seen = EmptyMap

\* C37: partner is not atomic. The task is in the store before the search and
\* before the call of the completer; a search the parser rejects ends the
\* call with that error, and then the task just created is still in the
\* store, queued, and no plan was recorded for it.
C37_PartnerNotAtomic ==
  /\ [](pt_pc = "raised"
        => /\ ~QueryOk(pt_instruction)
           /\ pt_result = [kind |-> "OperationalError"]
           /\ pt_task_id \in DOMAIN tasks
           /\ tasks[pt_task_id].status = "queued"
           /\ tasks[pt_task_id].description = pt_instruction
           /\ pt_plan = NoPlan
           /\ pt_logs = <<>>)
  /\ [][/\ (pt_pc' # pt_pc /\ pt_pc' \in {"searched", "raised", "planned"})
           => (pt_task_id \in DOMAIN tasks /\ tasks' = tasks)
        /\ (pt_pc = "added" /\ pt_pc' # pt_pc /\ ~QueryOk(pt_instruction))
           => pt_pc' = "raised"]_vars

\* the second call of partner has failed on an instruction with punctuation,
\* both tasks are in the store
C37_Witness ==
  /\ pt_pc = "raised"
  /\ pt_instruction = <<"cat", "-", "cats">>
  /\ DOMAIN tasks = {1, 2}
  /\ pt_task_id = 2
  /\ tasks[2].status = "queued"
  /\ memory_fts # <<>>

\* C38: execute_task never raises and keeps the task maps consistent: a task
\* id is never in active_tasks and in completed_tasks at once; when the call
\* has returned for a task of a registered agent type, the task is not in
\* active_tasks, it is in completed_tasks, and its status is completed, or
\* failed with the error as result; for an agent type without an agent the
\* task is in neither map and still pending.
C38_TaskMapsConsistent ==
  /\ et_pc # "raised"
  /\ DOMAIN active_tasks \cap DOMAIN completed_tasks = {}
  /\ (et_pc = "returned" /\ AgentTypeOf(et_task) \in Registered)
     => /\ TaskIdOf(et_task) \notin DOMAIN active_tasks
        /\ TaskIdOf(et_task) \in DOMAIN completed_tasks
        /\ completed_tasks[TaskIdOf(et_task)] = et_task
        /\ task_state[et_task] \in {[status |-> "completed", result |-> "dict"],
                                    [status |-> "failed", result |-> "error"]}
        /\ et_out = task_state[et_task].result
  /\ (et_pc = "returned" /\ AgentTypeOf(et_task) \notin Registered)
     => /\ TaskIdOf(et_task) \notin DOMAIN active_tasks
        /\ TaskIdOf(et_task) \notin DOMAIN completed_tasks
        /\ task_state[et_task] = Pending

\* C39: call invokes the models of the task type strictly in the order of
\* the list, the next one only after the one before has raised; it returns
\* what the first model that does not raise gave and invokes no model after
\* it; it raises RuntimeError exactly when every model of the task type has
\* raised, which includes a task type without models.
C39_FallbackInOrder ==
  /\ [](LET models == ModelsFor(fb_agent, fb_task_type)
            n == Len(fb_invoked)
        IN /\ n <= Len(models) /\ Len(fb_raised) = n
           /\ \A k \in 1..n : fb_invoked[k] = models[k]
           /\ \A k \in 1..(n - 1) : fb_raised[k]
           /\ (fb_pc = "trying") => (n < Len(models) /\ \A k \in 1..n : fb_raised[k])
           /\ (fb_pc = "returned")
              => (n >= 1 /\ ~fb_raised[n] /\ fb_result = Answer(models[n], fb_prompt))
           /\ (fb_pc = "raised")
              => (fb_result = [kind |-> "RuntimeError"] /\ n = Len(models)
                  /\ \A k \in 1..n : fb_raised[k])
           /\ (fb_pc \in {"returned", "raised"} /\ n = Len(models)
               /\ \A k \in 1..n : fb_raised[k])
              => fb_pc = "raised")
  /\ [][/\ (fb_pc = "returned") => (fb_invoked' = fb_invoked /\ fb_result' = fb_result)
        /\ (fb_pc = "trying")
           => (Len(fb_invoked') = Len(fb_invoked) + 1
               /\ SubSeq(fb_invoked', 1, Len(fb_invoked)) = fb_invoked)]_vars

\* the third model of the list has answered after the first two raised
C39_Witness ==
  /\ fb_agent = "weaviate-local"
  /\ fb_pc = "returned"
  /\ fb_task_type = "reasoning"
  /\ fb_invoked = <<"Claude", "Gemini", "GroqLLama">>
  /\ fb_raised = <<TRUE, TRUE, FALSE>>
  /\ fb_result = Answer("GroqLLama", fb_prompt)
====
